---- MODULE Spec2Model ----
(***************************************************************************)
(* Components of the node, each with its own specification:                *)
(*  - the fragment mempool (jormungandr/src/fragment/pool.rs): the bounded *)
(*    LRU store internal::Pool, the fragment logs, the network outbox and  *)
(*    the operations insert_and_propagate_all, remove_added_to_block and   *)
(*    select (Spec, VariantSpec);                                          *)
(*  - the client connection (network/client/connect.rs): connect, its      *)
(*    ConnectFuture and ConnectHandle (ConnectSpec);                       *)
(*  - the peer client driver (network/client/mod.rs): Client::poll         *)
(*    (ClientSpec);                                                        *)
(*  - the server service (network/service.rs): handshake and client_auth   *)
(*    (ServiceSpec), peers (PeersSpec);                                    *)
(*  - the notifier hub (notifier/mod.rs): new_connection (NotifierSpec),  *)
(*    the tip and block notifications (HubSpec).                           *)
(***************************************************************************)
EXTENDS Integers, Sequences, FiniteSets, TLC

(***************************************************************************)
(* Bounds of the model.                                                    *)
(***************************************************************************)
MaxCapacity == 2
MaxBatch == 3
MaxIds == 2
ChanCap == 1
MaxBlock == 2
HashLen == 1
MaxNonce == 2
MaxView == 2
MaxLimit == 2
MaxSubscribers == 3
MaxConnections == 2
MaxTips == 2
MaxPublished == 18
MaxTasks == 2
MaxOptions == 300
MaxProposals == 2
MaxCoord == 1
MaxEvent == 2

VARIABLES
    universe,       \* the fragments callers submit in this run
    max_entries,    \* internal::Pool capacity given to Pool::new
    entries,        \* internal::Pool.entries, least recently used first
    logs,           \* Pool.logs: fragment id -> status, NoLog when absent
    outbox,         \* messages in flight in network_msg_box
    rx_alive,       \* the receiving half of network_msg_box still exists
    pc,             \* "idle", "propagating" (inside the send loop), "returned"
    op,             \* the call in progress or just returned, with its arguments
    new_fragments,  \* insert_and_propagate_all: fragments still to propagate
    fragment_logs,  \* insert_and_propagate_all: ids of the logs to insert
    sent,           \* messages this call has sent, in order
    evicted,        \* fragments this call's inserts pushed out of the cache
    pre,            \* entries and logs as they were when the call started; where
                    \* follow is set, the ids the cache has dropped for capacity
    result          \* value the call returned

poolVars == <<universe, max_entries, entries, logs, outbox, rx_alive, pc, op,
              new_fragments, fragment_logs, sent, evicted, pre, result>>

\* Client connection (network/client/connect.rs): one call of connect, its
\* ConnectFuture and its ConnectHandle.
VARIABLES
    expected,        \* state.global.block0_hash
    legacy_node_id,  \* config.legacy_node_id is set
    conn_stage,      \* the await the connection task stands at
    conn_poll,       \* "pending" between polls, "polling" inside one, "resolved"
    requests,        \* requests the task has sent to the peer, in order
    block0,          \* block0 id bytes of the peer's handshake response
    peer_auth,       \* the peer's handshake response asks for client_auth
    task_result,     \* output of the connection task
    client_created,  \* Client::new has run
    conn_result,     \* output of the ConnectFuture
    handle_alive,    \* the ConnectHandle (the oneshot receiver) exists
    comms,           \* the PeerComms of the oneshot: "unsent", "sent", "taken"
    canceled_in,     \* where the future stood when the handle was dropped
    handle_result    \* what the last try_complete returned

connectVars == <<expected, legacy_node_id, conn_stage, conn_poll, requests,
                 block0, peer_auth, task_result, client_created, conn_result,
                 handle_alive, comms, canceled_in, handle_result>>

\* Peer client driver (network/client/mod.rs): the Client future.
VARIABLES
    client_pc,                    \* where Client::poll stands, or what it returned
    progress,                     \* the Progress of the pass of the loop
    incoming_block_announcement,  \* <<>> for None, <<header>> for Some(header)
    incoming_solicitation,        \* <<>> for None, <<msg>> for Some(msg)
    shutting_down,                \* Client.shutting_down
    closed,                       \* the sinks poll_close was called on, in order
    polled,                       \* the trace of the latest pass, in order
    handed                        \* the sinks given an item in that pass, in order

clientVars == <<client_pc, progress, incoming_block_announcement,
                incoming_solicitation, shutting_down, closed, polled, handed>>

\* Server side of the protocol (network/service.rs): the peer map behind
\* handshake and client_auth, and one call of peers.
VARIABLES
    auth_nonce,     \* peers: address -> nonce of the last handshake, NoNonce if none
    node_id,        \* peers: address -> node id set by client_auth, NoId if none
    issued,         \* address -> every nonce a handshake has issued to it
    call,           \* the last handshake or client_auth call and what it returned
    topology_view,  \* peers: the view the topology gives
    limit,          \* peers: its argument
    peers_result    \* peers: <<>> before the call, <<addresses>> after it

serviceVars == <<auth_nonce, node_id, issued, call>>
peersVars == <<topology_view, limit, peers_result>>

\* Notifier hub (notifier/mod.rs).
VARIABLES
    max_connections,     \* Notifier.max_connections
    connection_counter,  \* Notifier.connection_counter
    conn,                \* per subscriber: the state of its new_connection task
    hub                  \* the tip channel, the block ring and the broadcast tasks

notifierVars == <<max_connections, connection_counter, conn, hub>>

\* Vote codec (jormungandr-lib/src/interfaces/vote.rs): one decoding.
VARIABLES
    codec   \* the function applied, its input, the text decoded and the result

codecVars == <<codec>>

nonPoolVars == <<connectVars, clientVars, serviceVars, peersVars, notifierVars,
                 codecVars>>
nonConnectVars == <<poolVars, clientVars, serviceVars, peersVars, notifierVars,
                    codecVars>>
nonClientVars == <<poolVars, connectVars, serviceVars, peersVars, notifierVars,
                   codecVars>>
nonServiceVars == <<poolVars, connectVars, clientVars, peersVars, notifierVars,
                    codecVars>>
nonPeersVars == <<poolVars, connectVars, clientVars, serviceVars, notifierVars,
                  codecVars>>
nonNotifierVars == <<poolVars, connectVars, clientVars, serviceVars, peersVars,
                     codecVars>>
nonCodecVars == <<poolVars, connectVars, clientVars, serviceVars, peersVars,
                  notifierVars>>

vars == <<poolVars, nonPoolVars>>

Range(s) == {s[i] : i \in 1..Len(s)}
SeqsUpTo(S, n) == UNION {[1..k -> S] : k \in 0..n}
Min(a, b) == IF a <= b THEN a ELSE b

(***************************************************************************)
(* The state each component is constructed in.                             *)
(***************************************************************************)
NoResult == [tag |-> "none", val |-> <<>>]

\* A HeaderHash is HashLen bytes.
Bytes == {1, 2}
Hashes == [1..HashLen -> Bytes]
NoError == [tag |-> "none", expected |-> <<>>, peer_responded |-> <<>>]

\* connect: the oneshot channel, the handle and the future that has not been
\* polled yet.
ConnectStart(e, l) ==
    /\ expected = e
    /\ legacy_node_id = l
    /\ conn_stage = "start"
    /\ conn_poll = "pending"
    /\ requests = <<>>
    /\ block0 = <<>>
    /\ peer_auth = FALSE
    /\ task_result = NoError
    /\ client_created = FALSE
    /\ conn_result = NoError
    /\ handle_alive = TRUE
    /\ comms = "unsent"
    /\ canceled_in = "no"
    /\ handle_result = "none"

ConnectIdle == ConnectStart([i \in 1..HashLen |-> 1], FALSE)

\* Client::new: both slots empty, not shutting down, not polled yet.
ClientIdle ==
    /\ client_pc = "pending"
    /\ progress = "Pending"
    /\ incoming_block_announcement = <<>>
    /\ incoming_solicitation = <<>>
    /\ shutting_down = FALSE
    /\ closed = <<>>
    /\ polled = <<>>
    /\ handed = <<>>

Addresses == {"A", "B"}
NodeIds == {"N1", "N2"}
Nonces == 1..MaxNonce
NoNonce == 0
NoId == "NoId"
NoAddr == "NoAddr"
NoAuth == [id |-> NoId, key |-> NoId, signed |-> NoNonce]
NoCall == [name |-> "none", addr |-> NoAddr, auth |-> NoAuth, had_nonce |-> FALSE,
           node_id_before |-> NoId, result |-> "none"]

\* The node has served no handshake yet.
ServiceIdle ==
    /\ auth_nonce = [a \in Addresses |-> NoNonce]
    /\ node_id = [a \in Addresses |-> NoId]
    /\ issued = [a \in Addresses |-> {}]
    /\ call = NoCall

\* A view of the topology: the nodes of the selection, each with a socket
\* address or without one, and the address of the node itself, if it has one.
TopologyView(nodes, self) == [peers |-> nodes, self_node |-> self]

PeersStart(v, l) ==
    /\ topology_view = v
    /\ limit = l
    /\ peers_result = <<>>

PeersIdle == PeersStart(TopologyView(<<>>, NoAddr), 0)

Subscribers == 1..MaxSubscribers

\* A subscriber whose NewConnection message has not been processed.
NoTip == -1
NoConnection == [pc |-> "none", counter |-> 0, frames |-> {},
                 tip_ver |-> 0, tip |-> NoTip,
                 next |-> 0, block |-> 0, lagged_at |-> 0]

\* Notifier::new: the latest-value channel holds current_tip (tip 0), the
\* ring is empty, no broadcast task is spawned.
NoHub == [tip |-> 0, tips |-> 0, tip_tasks |-> {}, sent |-> 0, block_tasks |-> 0]

\* Notifier::new: the counter at zero, nobody connected.
NotifierStart(max) ==
    /\ max_connections = max
    /\ connection_counter = 0
    /\ conn = [i \in Subscribers |-> NoConnection]
    /\ hub = NoHub

NotifierIdle == NotifierStart(1)

\* No decoding.
NoOut == [kind |-> "none"]
NoCodec == [fn |-> "none", arg |-> <<>>, text |-> <<>>, out |-> NoOut]

CodecIdle == codec = NoCodec

NonPoolIdle ==
    ConnectIdle /\ ClientIdle /\ ServiceIdle /\ PeersIdle /\ NotifierIdle /\ CodecIdle

(***************************************************************************)
(* Fragments.  A fragment id is the hash of the fragment's content, so a   *)
(* fragment is identified with its id; the tables give its variant, the    *)
(* outcome of verify_possibly_balanced on its transaction, and the input   *)
(* it spends on the ledger.                                                *)
(***************************************************************************)
FragmentIds == 1..8

Variants == {"Initial", "OldUtxoDeclaration", "Transaction", "StakeDelegation",
             "OwnerStakeDelegation", "PoolRegistration", "PoolRetirement",
             "PoolUpdate", "UpdateProposal", "UpdateVote", "VotePlan",
             "VoteCast", "VoteTally", "EncryptedVoteTally"}

variant == <<"Transaction", "VoteCast", "StakeDelegation", "Transaction",
             "Initial", "OldUtxoDeclaration", "UpdateProposal", "UpdateVote">>

verify_possibly_balanced == <<TRUE, TRUE, TRUE, FALSE, TRUE, TRUE, TRUE, TRUE>>

Inputs == {1, 2}
input == <<1, 1, 2, 2, 1, 1, 1, 1>>

CoreFragments == {1, 2, 3, 4}
VariantFragments == {1, 2, 4, 5, 6, 7, 8}

is_transaction_valid(f) == verify_possibly_balanced[f]

\* Variant of is_fragment_valid with UpdateVote enabled.
is_fragment_valid_update_vote(f) ==
    IF variant[f] \in {"Initial", "OldUtxoDeclaration", "UpdateProposal"}
    THEN FALSE
    ELSE is_transaction_valid(f)

is_fragment_valid(f) ==
    CASE variant[f] = "Initial" -> FALSE
      [] variant[f] = "OldUtxoDeclaration" -> FALSE
      [] variant[f] = "Transaction" -> is_transaction_valid(f)
      [] variant[f] = "StakeDelegation" -> is_transaction_valid(f)
      [] variant[f] = "OwnerStakeDelegation" -> is_transaction_valid(f)
      [] variant[f] = "PoolRegistration" -> is_transaction_valid(f)
      [] variant[f] = "PoolRetirement" -> is_transaction_valid(f)
      [] variant[f] = "PoolUpdate" -> is_transaction_valid(f)
      [] variant[f] = "UpdateProposal" -> FALSE
      [] variant[f] = "UpdateVote" -> FALSE
      [] variant[f] = "VotePlan" -> is_transaction_valid(f)
      [] variant[f] = "VoteCast" -> is_transaction_valid(f)
      [] variant[f] = "VoteTally" -> is_transaction_valid(f)
      [] variant[f] = "EncryptedVoteTally" -> is_transaction_valid(f)

(***************************************************************************)
(* internal::Pool: an LruCache keyed by fragment id.  The cache is a       *)
(* sequence without repetitions, least recently used entry first.          *)
(***************************************************************************)
\* Variants of put: one that never drops an entry, one that drops the most
\* recent entry of a full cache.
put_no_evict(es, cap, f) ==
    [entries |-> Append(SelectSeq(es, LAMBDA x : x # f), f), evicted |-> <<>>]

put_evict_newest(es, cap, f) ==
    IF f \in Range(es)
    THEN [entries |-> Append(SelectSeq(es, LAMBDA x : x # f), f), evicted |-> <<>>]
    ELSE IF Len(es) >= cap
         THEN [entries |-> Append(SubSeq(es, 1, Len(es) - 1), f),
               evicted |-> <<es[Len(es)]>>]
         ELSE [entries |-> Append(es, f), evicted |-> <<>>]

\* LruCache::put: a present key is refreshed; an absent key is added as the
\* most recent entry, after dropping the least recent one of a full cache.
put(es, cap, f) ==
    IF f \in Range(es)
    THEN [entries |-> Append(SelectSeq(es, LAMBDA x : x # f), f), evicted |-> <<>>]
    ELSE IF Len(es) >= cap
         THEN [entries |-> Append(Tail(es), f), evicted |-> <<Head(es)>>]
         ELSE [entries |-> Append(es, f), evicted |-> <<>>]

\* Variant of insert without the contains test.
insert_no_contains(es, cap, f) ==
    LET p == put(es, cap, f)
    IN  [entries |-> p.entries, registered |-> <<f>>, evicted |-> p.evicted]

\* Variant of insert in which finding the id makes the entry the newest.
insert_refreshes(es, cap, f) ==
    IF f \in Range(es)
    THEN [entries |-> Append(SelectSeq(es, LAMBDA x : x # f), f),
          registered |-> <<>>, evicted |-> <<>>]
    ELSE LET p == put(es, cap, f)
         IN  [entries |-> p.entries, registered |-> <<f>>, evicted |-> p.evicted]

\* registered is the returned Option<Fragment>: <<>> for None, <<f>> for Some(f).
insert(es, cap, f) ==
    IF f \in Range(es)
    THEN [entries |-> es, registered |-> <<>>, evicted |-> <<>>]
    ELSE LET p == put(es, cap, f)
         IN  [entries |-> p.entries, registered |-> <<f>>, evicted |-> p.evicted]

RECURSIVE insert_all(_, _, _)
insert_all(es, cap, fs) ==
    IF fs = <<>>
    THEN [entries |-> es, registered |-> <<>>, evicted |-> <<>>]
    ELSE LET r == insert(es, cap, Head(fs))
             t == insert_all(r.entries, cap, Tail(fs))
         IN  [entries |-> t.entries,
              registered |-> r.registered \o t.registered,
              evicted |-> r.evicted \o t.evicted]

\* Variant of remove_all in which an absent id pops the oldest entry.
RECURSIVE remove_all_pop_lru(_, _)
remove_all_pop_lru(es, ids) ==
    IF ids = <<>> THEN es
    ELSE remove_all_pop_lru(
             IF Head(ids) \in Range(es)
             THEN SelectSeq(es, LAMBDA x : x # Head(ids))
             ELSE IF es = <<>> THEN es ELSE Tail(es),
             Tail(ids))

\* LruCache::pop of every id in turn; an absent id is left alone.
remove_all(es, ids) == SelectSeq(es, LAMBDA x : x \notin Range(ids))

\* Variant of remove_oldest that pops the most recent entry.
remove_oldest_newest(es) ==
    IF es = <<>>
    THEN [entries |-> es, fragment |-> <<>>]
    ELSE [entries |-> SubSeq(es, 1, Len(es) - 1), fragment |-> <<es[Len(es)]>>]

\* LruCache::pop_lru: fragment is the returned Option<Fragment>.
remove_oldest(es) ==
    IF es = <<>>
    THEN [entries |-> es, fragment |-> <<>>]
    ELSE [entries |-> Tail(es), fragment |-> <<Head(es)>>]

(***************************************************************************)
(* Logs: one FragmentLog per fragment id, created Pending.                 *)
(***************************************************************************)
NoLog == "NoLog"
Statuses == {"Pending", "Rejected", "InABlock"}

\* Variant of exist_all for which only a Pending log exists.
logs_exist_all_pending(l, ids) == [i \in 1..Len(ids) |-> l[ids[i]] = "Pending"]

logs_exist_all(l, ids) == [i \in 1..Len(ids) |-> l[ids[i]] # NoLog]

logs_insert(l, id) == IF l[id] # NoLog THEN l ELSE [l EXCEPT ![id] = "Pending"]

RECURSIVE logs_insert_all(_, _)
logs_insert_all(l, ids) ==
    IF ids = <<>> THEN l ELSE logs_insert_all(logs_insert(l, Head(ids)), Tail(ids))

logs_modify(l, id, status) == IF l[id] = NoLog THEN l ELSE [l EXCEPT ![id] = status]

RECURSIVE logs_modify_all(_, _, _)
logs_modify_all(l, ids, status) ==
    IF ids = <<>> THEN l
    ELSE logs_modify_all(logs_modify(l, Head(ids), status), Tail(ids), status)

(***************************************************************************)
(* The ledger the selection simulates: the set of inputs already spent.    *)
(***************************************************************************)
apply_fragment(ledger, f) ==
    IF input[f] \in ledger
    THEN [ok |-> FALSE, ledger |-> ledger]
    ELSE [ok |-> TRUE, ledger |-> ledger \cup {input[f]}]

\* OldestFirst::select followed by finalize: takes fragments from the pool
\* oldest first until the pool is empty or the block holds max fragments.
RECURSIVE OldestFirst_select(_, _, _, _, _)
OldestFirst_select(es, l, ledger, max, contents) ==
    LET ro == remove_oldest(es)
    IN  IF ro.fragment = <<>>
        THEN [entries |-> es, logs |-> l, contents |-> contents]
        ELSE LET f == ro.fragment[1]
                 a == apply_fragment(ledger, f)
                 c == IF a.ok THEN Append(contents, f) ELSE contents
                 l2 == IF a.ok THEN l ELSE logs_modify(l, f, "Rejected")
             IN  IF Len(c) >= max
                 THEN [entries |-> ro.entries, logs |-> l2, contents |-> c]
                 ELSE OldestFirst_select(ro.entries, l2, a.ledger, max, c)

(***************************************************************************)
(* Pool operations.                                                        *)
(***************************************************************************)
NoOp == [name |-> "none", fragments |-> <<>>, status |-> NoLog, ledger |-> {}, max |-> 0]
NoPre == [entries |-> <<>>, logs |-> [f \in FragmentIds |-> NoLog],
          follow |-> FALSE, dropped |-> {}]
Ok(n) == [tag |-> "Ok", val |-> <<n>>]
CannotPropagate == [tag |-> "CannotPropagate", val |-> <<>>]
Unit == [tag |-> "Unit", val |-> <<>>]
Contents(c) == [tag |-> "Contents", val |-> c]

\* fragments.retain(is_fragment_valid)
retain_valid(fs) == SelectSeq(fs, is_fragment_valid)

\* Variant of not_in_logs that drops nothing.
not_in_logs_keeps_all(fs, exists) == fs

\* the fragments of fs whose id has no log: zip with exist_all and filter
RECURSIVE not_in_logs(_, _)
not_in_logs(fs, exists) ==
    IF fs = <<>> THEN <<>>
    ELSE (IF Head(exists) THEN <<>> ELSE <<Head(fs)>>)
             \o not_in_logs(Tail(fs), Tail(exists))

\* Variant of register that marks what the cache dropped as Rejected.
register_marks_evicted(es, l, cap, fs) ==
    LET valid == retain_valid(fs)
        newf == not_in_logs(valid, logs_exist_all(l, valid))
        r == insert_all(es, cap, newf)
    IN  IF valid = <<>>
        THEN [none_valid |-> TRUE, entries |-> es, logs |-> l,
              registered |-> <<>>, evicted |-> <<>>]
        ELSE [none_valid |-> FALSE, entries |-> r.entries,
              logs |-> logs_modify_all(l, r.evicted, "Rejected"),
              registered |-> r.registered, evicted |-> r.evicted]

\* insert_and_propagate_all up to its send loop: the validity filter, the
\* early return, the log filter and the insertion into the pool.  The logs
\* are only read.
register(es, l, cap, fs) ==
    LET valid == retain_valid(fs)
        newf == not_in_logs(valid, logs_exist_all(l, valid))
        r == insert_all(es, cap, newf)
    IN  IF valid = <<>>
        THEN [none_valid |-> TRUE, entries |-> es, logs |-> l,
              registered |-> <<>>, evicted |-> <<>>]
        ELSE [none_valid |-> FALSE, entries |-> r.entries, logs |-> l,
              registered |-> r.registered, evicted |-> r.evicted]

\* Variant of send_all that takes the fragments from the back.
RECURSIVE send_all_last_first(_, _, _, _)
send_all_last_first(nf, ob, alive, s) ==
    IF nf = <<>>
    THEN [outcome |-> "done", new_fragments |-> nf, outbox |-> ob, sent |-> s]
    ELSE IF ~alive
    THEN [outcome |-> "closed", new_fragments |-> nf, outbox |-> ob, sent |-> s]
    ELSE IF Len(ob) >= ChanCap
    THEN [outcome |-> "pending", new_fragments |-> nf, outbox |-> ob, sent |-> s]
    ELSE send_all_last_first(SubSeq(nf, 1, Len(nf) - 1), Append(ob, nf[Len(nf)]),
                             alive, Append(s, nf[Len(nf)]))

\* The send loop, run until it ends or has to wait: a message is queued when
\* the channel has room, the loop fails when the receiver is gone, and waits
\* when the channel is full.
RECURSIVE send_all(_, _, _, _)
send_all(nf, ob, alive, s) ==
    IF nf = <<>>
    THEN [outcome |-> "done", new_fragments |-> nf, outbox |-> ob, sent |-> s]
    ELSE IF ~alive
    THEN [outcome |-> "closed", new_fragments |-> nf, outbox |-> ob, sent |-> s]
    ELSE IF Len(ob) >= ChanCap
    THEN [outcome |-> "pending", new_fragments |-> nf, outbox |-> ob, sent |-> s]
    ELSE send_all(Tail(nf), Append(ob, Head(nf)), alive, Append(s, Head(nf)))

\* What follows the send loop: the `?` returns the error at once, otherwise
\* the logs are inserted and the count returned.
after_sends(outcome, l, flogs) ==
    CASE outcome = "done" ->
           [pc |-> "returned", result |-> Ok(Len(flogs)), logs |-> logs_insert_all(l, flogs)]
      [] outcome = "closed" ->
           [pc |-> "returned", result |-> CannotPropagate, logs |-> l]
      [] outcome = "pending" ->
           [pc |-> "propagating", result |-> NoResult, logs |-> l]

insert_and_propagate_all ==
    /\ pc = "idle"
    /\ \E fs \in SeqsUpTo(universe, MaxBatch) :
         LET c == register(entries, logs, max_entries, fs)
             s == send_all(c.registered, outbox, rx_alive, <<>>)
             a == after_sends(s.outcome, c.logs, c.registered)
         IN  /\ op' = [NoOp EXCEPT !.name = "insert_and_propagate_all", !.fragments = fs]
             /\ IF c.none_valid
                THEN /\ pc' = "returned"
                     /\ result' = Ok(0)
                     /\ UNCHANGED <<entries, logs, outbox, new_fragments,
                                    fragment_logs, sent, evicted>>
                ELSE /\ entries' = c.entries
                     /\ fragment_logs' = c.registered
                     /\ evicted' = c.evicted
                     /\ new_fragments' = s.new_fragments
                     /\ outbox' = s.outbox
                     /\ sent' = s.sent
                     /\ pc' = a.pc
                     /\ result' = a.result
                     /\ logs' = a.logs
             /\ pre' = [entries |-> entries, logs |-> logs, follow |-> pre.follow,
                        dropped |-> IF pre.follow
                                    THEN pre.dropped \cup Range(c.evicted)
                                    ELSE pre.dropped]
    /\ UNCHANGED <<universe, max_entries, rx_alive>>
    /\ UNCHANGED nonPoolVars

\* The send loop resumes once the channel has room or has been closed.
propagate ==
    /\ pc = "propagating"
    /\ ~rx_alive \/ Len(outbox) < ChanCap
    /\ LET s == send_all(new_fragments, outbox, rx_alive, sent)
           a == after_sends(s.outcome, logs, fragment_logs)
       IN  /\ new_fragments' = s.new_fragments
           /\ outbox' = s.outbox
           /\ sent' = s.sent
           /\ pc' = a.pc
           /\ result' = a.result
           /\ logs' = a.logs
    /\ UNCHANGED <<universe, max_entries, entries, rx_alive, op,
                   fragment_logs, evicted, pre>>
    /\ UNCHANGED nonPoolVars

remove_added_to_block_on(es, l, ids, status) ==
    [entries |-> remove_all(es, ids), logs |-> logs_modify_all(l, ids, status)]

remove_added_to_block ==
    /\ pc = "idle"
    /\ \E ids \in SeqsUpTo(universe, MaxIds), status \in Statuses :
         LET r == remove_added_to_block_on(entries, logs, ids, status)
         IN  /\ entries' = r.entries
             /\ logs' = r.logs
             /\ op' = [NoOp EXCEPT !.name = "remove_added_to_block",
                                   !.fragments = ids, !.status = status]
    /\ result' = Unit
    /\ pc' = "returned"
    /\ pre' = [pre EXCEPT !.entries = entries, !.logs = logs]
    /\ UNCHANGED <<universe, max_entries, outbox, rx_alive, new_fragments,
                   fragment_logs, sent, evicted>>
    /\ UNCHANGED nonPoolVars

\* Variant of select that simulates against an empty ledger.
select_ignores_ledger ==
    /\ pc = "idle"
    /\ \E ledger \in SUBSET Inputs, max \in 1..MaxBlock :
         LET r == OldestFirst_select(entries, logs, {}, max, <<>>)
         IN  /\ entries' = r.entries
             /\ logs' = r.logs
             /\ result' = Contents(r.contents)
             /\ op' = [NoOp EXCEPT !.name = "select", !.ledger = ledger, !.max = max]
    /\ pc' = "returned"
    /\ pre' = [pre EXCEPT !.entries = entries, !.logs = logs]
    /\ UNCHANGED <<universe, max_entries, outbox, rx_alive, new_fragments,
                   fragment_logs, sent, evicted>>
    /\ UNCHANGED nonPoolVars

select ==
    /\ pc = "idle"
    /\ \E ledger \in SUBSET Inputs, max \in 1..MaxBlock :
         LET r == OldestFirst_select(entries, logs, ledger, max, <<>>)
         IN  /\ entries' = r.entries
             /\ logs' = r.logs
             /\ result' = Contents(r.contents)
             /\ op' = [NoOp EXCEPT !.name = "select", !.ledger = ledger, !.max = max]
    /\ pc' = "returned"
    /\ pre' = [pre EXCEPT !.entries = entries, !.logs = logs]
    /\ UNCHANGED <<universe, max_entries, outbox, rx_alive, new_fragments,
                   fragment_logs, sent, evicted>>
    /\ UNCHANGED nonPoolVars

\* The caller takes the returned value; the pool is ready for the next call.
return ==
    /\ pc = "returned"
    /\ pc' = "idle"
    /\ op' = NoOp
    /\ pre' = [NoPre EXCEPT !.follow = pre.follow, !.dropped = pre.dropped]
    /\ result' = NoResult
    /\ new_fragments' = <<>>
    /\ fragment_logs' = <<>>
    /\ sent' = <<>>
    /\ evicted' = <<>>
    /\ UNCHANGED <<universe, max_entries, entries, logs, outbox, rx_alive>>
    /\ UNCHANGED nonPoolVars

\* The network task takes the oldest message out of the channel.
network_recv ==
    /\ rx_alive
    /\ outbox # <<>>
    /\ outbox' = Tail(outbox)
    /\ UNCHANGED <<universe, max_entries, entries, logs, rx_alive, pc, op,
                   new_fragments, fragment_logs, sent, evicted, pre, result>>
    /\ UNCHANGED nonPoolVars

\* The receiving half is dropped; what the channel held is discarded.
network_drop ==
    /\ rx_alive
    /\ rx_alive' = FALSE
    /\ outbox' = <<>>
    /\ UNCHANGED <<universe, max_entries, entries, logs, pc, op,
                   new_fragments, fragment_logs, sent, evicted, pre, result>>
    /\ UNCHANGED nonPoolVars

PoolStart(u, follow) ==
    /\ universe = u
    /\ max_entries \in 1..MaxCapacity
    /\ entries = <<>>
    /\ logs = [f \in FragmentIds |-> NoLog]
    /\ outbox = <<>>
    /\ rx_alive = TRUE
    /\ pc = "idle"
    /\ op = NoOp
    /\ pre = [NoPre EXCEPT !.follow = follow]
    /\ new_fragments = <<>>
    /\ fragment_logs = <<>>
    /\ sent = <<>>
    /\ evicted = <<>>
    /\ result = NoResult
    /\ NonPoolIdle

PoolInit(u) == PoolStart(u, FALSE)

Init == PoolInit(CoreFragments)

Next ==
    \/ insert_and_propagate_all
    \/ propagate
    \/ remove_added_to_block
    \/ select
    \/ return
    \/ network_recv
    \/ network_drop

Spec == Init /\ [][Next]_vars

\* The same pool fed with two admissible fragments and one fragment of every
\* kind the validity filter refuses.
VariantInit == PoolInit(VariantFragments)

VariantSpec == VariantInit /\ [][Next]_vars

\* The same pool fed with two admissible fragments, with the ids the cache
\* drops for capacity followed from call to call.
HistoryFragments == {1, 2}

HistoryInit == PoolStart(HistoryFragments, TRUE)

HistorySpec == HistoryInit /\ [][Next]_vars

\* A pool that exists and is not used: the state of the pool while another
\* component of the node is looked at.
PoolIdle ==
    /\ universe = {}
    /\ max_entries = 1
    /\ entries = <<>>
    /\ logs = [f \in FragmentIds |-> NoLog]
    /\ outbox = <<>>
    /\ rx_alive = TRUE
    /\ pc = "idle"
    /\ op = NoOp
    /\ pre = NoPre
    /\ new_fragments = <<>>
    /\ fragment_logs = <<>>
    /\ sent = <<>>
    /\ evicted = <<>>
    /\ result = NoResult

(***************************************************************************)
(* Client connection (network/client/connect.rs).  The connection task is  *)
(* the async block of connect; it runs inside ConnectFuture::poll, from    *)
(* one await to the next.  The handle lives on another task and can be     *)
(* dropped at any moment, also while a poll is running.                    *)
(***************************************************************************)
Err(tag) == [NoError EXCEPT !.tag = tag]
OkClient == Err("Ok")
Block0Mismatch(e, p) == [tag |-> "Block0Mismatch", expected |-> e, peer_responded |-> p]

\* What a peer may answer as block0 id: too few bytes, a hash, a hash
\* followed by more bytes.
Block0Ids == SeqsUpTo(Bytes, HashLen + 1)

\* HeaderHash::read takes the first HashLen bytes of the buffer and fails
\* when there are fewer; what follows them is not looked at.
HeaderHash_read(buf) ==
    IF Len(buf) < HashLen
    THEN [ok |-> FALSE, hash |-> <<>>]
    ELSE [ok |-> TRUE, hash |-> SubSeq(buf, 1, HashLen)]

\* Variant of match_block0 that accepts every hash.
match_block0_any(e, peer_responded) == OkClient

match_block0(e, peer_responded) ==
    IF e = peer_responded THEN OkClient ELSE Block0Mismatch(e, peer_responded)

Subscriptions == <<"block_subscription", "fragment_subscription", "gossip_subscription">>

\* Output of the future once the task is ready: the task's error as it is,
\* otherwise the PeerComms go to the handle and the client is returned, or
\* the handle is gone and the connection counts as canceled.
future_output(t, alive) ==
    IF t.tag # "Ok" THEN t
    ELSE IF alive THEN OkClient ELSE Err("Canceled")

\* The task completes with t inside the running poll, which resolves.
Finish(t) ==
    /\ task_result' = t
    /\ conn_stage' = "finished"
    /\ conn_poll' = "resolved"
    /\ conn_result' = future_output(t, handle_alive)
    /\ comms' = IF t.tag = "Ok" /\ handle_alive THEN "sent" ELSE comms

\* Variant of the poll that does not test for cancellation.
ConnectFuture_poll_no_cancel_test ==
    /\ conn_poll = "pending"
    /\ conn_poll' = "polling"
    /\ UNCHANGED <<expected, legacy_node_id, conn_stage, requests, block0,
                   peer_auth, task_result, client_created, conn_result,
                   handle_alive, comms, canceled_in, handle_result>>
    /\ UNCHANGED nonConnectVars

\* ConnectFuture::poll up to the poll of the task: a dropped handle resolves
\* the future to Canceled.
ConnectFuture_poll ==
    /\ conn_poll = "pending"
    /\ IF ~handle_alive
       THEN /\ conn_poll' = "resolved"
            /\ conn_result' = Err("Canceled")
       ELSE /\ conn_poll' = "polling"
            /\ UNCHANGED conn_result
    /\ UNCHANGED <<expected, legacy_node_id, conn_stage, requests, block0,
                   peer_auth, task_result, client_created,
                   handle_alive, comms, canceled_in, handle_result>>
    /\ UNCHANGED nonConnectVars

\* The task is polled for the first time and asks for the transport.
connect_start ==
    /\ conn_poll = "polling"
    /\ conn_stage = "start"
    /\ conn_stage' = "connecting"
    /\ requests' = Append(requests, IF legacy_node_id THEN "connect_legacy" ELSE "connect")
    /\ UNCHANGED <<expected, legacy_node_id, conn_poll, block0, peer_auth,
                   task_result, client_created, conn_result, handle_alive,
                   comms, canceled_in, handle_result>>
    /\ UNCHANGED nonConnectVars

\* grpc::connect completes: on success the handshake request goes out.
connect_transport ==
    /\ conn_poll = "polling"
    /\ conn_stage = "connecting"
    /\ \E ok \in BOOLEAN :
         IF ok
         THEN /\ conn_stage' = "handshaking"
              /\ requests' = Append(requests, "handshake")
              /\ UNCHANGED <<conn_poll, task_result, conn_result, comms>>
         ELSE /\ Finish(Err("Transport"))
              /\ UNCHANGED requests
    /\ UNCHANGED <<expected, legacy_node_id, block0, peer_auth, client_created,
                   handle_alive, canceled_in, handle_result>>
    /\ UNCHANGED nonConnectVars

\* The handshake completes: the block0 id is decoded and compared, and the
\* three subscription requests are sent together.
connect_handshake ==
    /\ conn_poll = "polling"
    /\ conn_stage = "handshaking"
    /\ \E ok \in BOOLEAN, id \in Block0Ids, auth \in BOOLEAN :
         IF ~ok
         THEN /\ Finish(Err("Handshake"))
              /\ UNCHANGED <<requests, block0, peer_auth>>
         ELSE /\ block0' = id
              /\ peer_auth' = auth
              /\ LET block0_hash == HeaderHash_read(id)
                     m == match_block0(expected, block0_hash.hash)
                 IN  IF ~block0_hash.ok
                     THEN /\ Finish(Err("DecodeBlock0"))
                          /\ UNCHANGED requests
                     ELSE IF m.tag # "Ok"
                     THEN /\ Finish(m)
                          /\ UNCHANGED requests
                     ELSE /\ conn_stage' = "subscribing"
                          /\ requests' = requests \o Subscriptions
                          /\ UNCHANGED <<conn_poll, task_result, conn_result, comms>>
    /\ UNCHANGED <<expected, legacy_node_id, client_created, handle_alive,
                   canceled_in, handle_result>>
    /\ UNCHANGED nonConnectVars

\* try_join3 completes: on success the Client is built and the task is done.
connect_subscriptions ==
    /\ conn_poll = "polling"
    /\ conn_stage = "subscribing"
    /\ \E ok \in BOOLEAN :
         IF ok
         THEN /\ client_created' = TRUE
              /\ Finish(OkClient)
         ELSE /\ Finish(Err("Subscription"))
              /\ UNCHANGED client_created
    /\ UNCHANGED <<expected, legacy_node_id, requests, block0, peer_auth,
                   handle_alive, canceled_in, handle_result>>
    /\ UNCHANGED nonConnectVars

\* What the task awaits is not ready: the poll returns Pending.
connect_pending ==
    /\ conn_poll = "polling"
    /\ conn_stage \in {"connecting", "handshaking", "subscribing"}
    /\ conn_poll' = "pending"
    /\ UNCHANGED <<expected, legacy_node_id, conn_stage, requests, block0,
                   peer_auth, task_result, client_created, conn_result,
                   handle_alive, comms, canceled_in, handle_result>>
    /\ UNCHANGED nonConnectVars

\* The owner of the handle drops it.
ConnectHandle_drop ==
    /\ handle_alive
    /\ handle_alive' = FALSE
    /\ canceled_in' = IF conn_poll = "resolved" THEN canceled_in ELSE conn_poll
    /\ UNCHANGED <<expected, legacy_node_id, conn_stage, conn_poll, requests,
                   block0, peer_auth, task_result, client_created, conn_result,
                   comms, handle_result>>
    /\ UNCHANGED nonConnectVars

\* Variant of try_complete that leaves the value in the channel.
try_complete_leaves ==
    /\ handle_alive
    /\ handle_result' = IF comms = "sent" THEN "Some"
                        ELSE IF conn_poll = "resolved" THEN "Canceled" ELSE "None"
    /\ UNCHANGED <<expected, legacy_node_id, conn_stage, conn_poll, requests,
                   block0, peer_auth, task_result, client_created, conn_result,
                   handle_alive, canceled_in, comms>>
    /\ UNCHANGED nonConnectVars

\* ConnectHandle::try_complete: try_recv on the oneshot receiver.
try_complete ==
    /\ handle_alive
    /\ IF comms = "sent"
       THEN /\ comms' = "taken"
            /\ handle_result' = "Some"
       ELSE /\ handle_result' = IF conn_poll = "resolved" THEN "Canceled" ELSE "None"
            /\ UNCHANGED comms
    /\ UNCHANGED <<expected, legacy_node_id, conn_stage, conn_poll, requests,
                   block0, peer_auth, task_result, client_created, conn_result,
                   handle_alive, canceled_in>>
    /\ UNCHANGED nonConnectVars

ConnectInit ==
    /\ PoolIdle
    /\ CodecIdle
    /\ NotifierIdle
    /\ ServiceIdle
    /\ PeersIdle
    /\ ClientIdle
    /\ \E e \in Hashes, l \in BOOLEAN : ConnectStart(e, l)

ConnectNext ==
    \/ ConnectFuture_poll
    \/ connect_start
    \/ connect_transport
    \/ connect_handshake
    \/ connect_subscriptions
    \/ connect_pending
    \/ ConnectHandle_drop
    \/ try_complete

ConnectSpec == ConnectInit /\ [][ConnectNext]_vars

(***************************************************************************)
(* Peer client driver (network/client/mod.rs).  Client::poll runs passes   *)
(* of a loop over five streams; a pass is followed stream by stream.  What *)
(* the sinks and the streams answer is the environment's choice.           *)
(***************************************************************************)
Sinks == <<"block_sink", "fragment_sink", "gossip_sink", "client_box">>

\* An outcome is Poll<Result<ProcessingOutcome, ()>>: "Pending", "Continue",
\* "Disconnect", or "Err" for Ready(Err(())).
Progress_begin(async_outcome) ==
    IF async_outcome = "Err" THEN "Disconnect" ELSE async_outcome

\* Variant of and_proceed_with in which the last handler's outcome stands.
and_proceed_with_last(p, async_outcome) ==
    IF async_outcome = "Err" THEN "Disconnect" ELSE async_outcome

and_proceed_with(p, async_outcome) ==
    CASE async_outcome = "Pending" -> p
      [] async_outcome = "Err" -> "Disconnect"
      [] OTHER -> async_outcome

Outcome(o, a, s, p, h) ==
    [outcome |-> o, announcement |-> a, solicitation |-> s, polled |-> p, handed |-> h]

ReadyAnswers == {"Pending", "Ok", "Err"}
SendAnswers == {"Ok", "Err"}
BlockEvents == {"Pending", "None", "Err", "Announce", "Solicit", "SolicitUndecodable",
                "Missing", "MissingUndecodable"}
InboundItems == {"Pending", "None", "Err", "Some"}
OutboundItems == {"Pending", "None", "Some"}

\* The events that carry something to forward, and the identities the peer
\* gives to what they carry.
Carrying == {"Announce", "Solicit", "Missing"}
EventIds == 1..MaxEvent

BlockEventAnswers ==
    {in \in [block_ready : ReadyAnswers, block_send : SendAnswers,
             block_flush : ReadyAnswers, box_ready : ReadyAnswers,
             box_send : SendAnswers, box_flush : ReadyAnswers,
             event : BlockEvents, id : EventIds] :
        in.event \notin Carrying => in.id = 1}

\* A call that is not made has no answer: with a full slot the sink is given
\* the item and not flushed, with an empty one it is flushed, and nothing is
\* asked after the block sink failed to be ready.
AskedBlockEventAnswers(a, s) ==
    {in \in BlockEventAnswers :
        /\ a # <<>> => in.block_flush = "Ok"
        /\ a = <<>> => in.block_send = "Ok"
        /\ s # <<>> => in.box_flush = "Ok"
        /\ s = <<>> => in.box_send = "Ok"
        /\ in.block_ready # "Ok" =>
              /\ in.box_ready = "Ok" /\ in.box_send = "Ok" /\ in.box_flush = "Ok"
              /\ in.event = "Pending"}

\* The sink is flushed only when the stream is idle and given an item only
\* when the stream has one.
InboundAnswers ==
    {in \in [ready : ReadyAnswers, next : InboundItems, flush : ReadyAnswers,
             send : SendAnswers] :
        /\ in.next # "Pending" => in.flush = "Ok"
        /\ in.next # "Some" => in.send = "Ok"}

\* An entry of the trace of a pass: a sink reported ready, a source was
\* polled and gave an item, a handler returned an outcome.
Ready(sink) == <<sink, "ready">>
Polled(source, item) == <<source, item>>
Returned(handler, outcome) == <<handler, outcome>>

\* More entries of the trace: poll_ready returned Pending, poll_flush was
\* called, start_send accepted an item, the block-event stream was polled.
NotReady(sink) == <<sink, "not_ready">>
Flushed(sink) == <<sink, "poll_flush">>
Sent(sink, item) == <<sink, "start_send", item>>
Event(kind, id) == <<"block_events", kind, id>>

\* Variant of Option::take that leaves the value in the slot.
take_leaves(slot) == slot

\* Option::take: the slot is left empty.
take(slot) == <<>>

\* What reading the event does once both sinks have been served; writing a
\* slot that is not empty fails the assertion before the write.
read_block_event(a, s, t, h, event, id) ==
    LET t1 == Append(t, Event(event, id))
    IN  CASE event = "Pending" -> Outcome("Pending", a, s, t1, h)
          [] event = "None" -> Outcome("Disconnect", a, s, t1, h)
          [] event = "Err" -> Outcome("Err", a, s, t1, h)
          [] event = "Announce" ->
               IF a # <<>>
               THEN Outcome("panic", a, s, t1, h)
               ELSE Outcome("Continue", << <<"header", id>> >>, s, t1, h)
          [] event = "Solicit" ->
               IF s # <<>>
               THEN Outcome("panic", a, s, t1, h)
               ELSE Outcome("Continue", a, << <<"GetBlocks", id>> >>, t1, h)
          [] event = "SolicitUndecodable" -> Outcome("Err", a, s, t1, h)
          [] event = "Missing" ->
               IF s # <<>>
               THEN Outcome("panic", a, s, t1, h)
               ELSE Outcome("Continue", a, << <<"GetHeadersRange", id>> >>, t1, h)
          [] event = "MissingUndecodable" -> Outcome("Err", a, s, t1, h)

\* What serving a sink adds to the trace once it reported ready: the
\* buffered item when start_send took it, a poll_flush when the slot was
\* empty.
served(sink, slot, send) ==
    <<Ready(sink)>> \o (IF slot = <<>> THEN <<Flushed(sink)>>
                        ELSE IF send = "Ok" THEN <<Sent(sink, slot[1])>>
                        ELSE <<>>)

\* Variant of process_block_event_on that reads the event while the client
\* box is not ready.
process_block_event_unserved_on(a, s, in) ==
    IF in.block_ready = "Pending"
    THEN Outcome("Pending", a, s, <<NotReady("block_sink")>>, <<>>)
    ELSE IF in.block_ready = "Err" THEN Outcome("Err", a, s, <<>>, <<>>)
    ELSE
    LET a1 == take(a)
        t1 == served("block_sink", a, in.block_send)
        h1 == IF a # <<>> THEN <<"block_sink">> ELSE <<>>
    IN  IF a # <<>> /\ in.block_send = "Err" THEN Outcome("Err", a1, s, t1, <<>>)
        ELSE IF a = <<>> /\ in.block_flush = "Err" THEN Outcome("Err", a1, s, t1, <<>>)
        ELSE IF in.box_ready = "Pending"
        THEN read_block_event(a1, s, Append(t1, NotReady("client_box")), h1,
                              in.event, in.id)
        ELSE IF in.box_ready = "Err" THEN Outcome("Err", a1, s, t1, h1)
        ELSE
        LET s1 == take(s)
            t2 == t1 \o served("client_box", s, in.box_send)
            h2 == h1 \o (IF s # <<>> THEN <<"client_box">> ELSE <<>>)
        IN  IF s # <<>> /\ in.box_send = "Err" THEN Outcome("Err", a1, s1, t2, h1)
            ELSE IF s = <<>> /\ in.box_flush = "Err" THEN Outcome("Err", a1, s1, t2, h1)
            ELSE read_block_event(a1, s1, t2, h2, in.event, in.id)

\* process_block_event: the block sink is made ready and given the buffered
\* announcement, the client box is made ready and given the buffered
\* solicitation, then one event is read.
process_block_event_on(a, s, in) ==
    IF in.block_ready = "Pending"
    THEN Outcome("Pending", a, s, <<NotReady("block_sink")>>, <<>>)
    ELSE IF in.block_ready = "Err" THEN Outcome("Err", a, s, <<>>, <<>>)
    ELSE
    LET a1 == take(a)
        t1 == served("block_sink", a, in.block_send)
        h1 == IF a # <<>> THEN <<"block_sink">> ELSE <<>>
    IN  IF a # <<>> /\ in.block_send = "Err" THEN Outcome("Err", a1, s, t1, <<>>)
        ELSE IF a = <<>> /\ in.block_flush = "Err" THEN Outcome("Err", a1, s, t1, <<>>)
        ELSE IF in.box_ready = "Pending"
        THEN Outcome("Pending", a1, s, Append(t1, NotReady("client_box")), h1)
        ELSE IF in.box_ready = "Err" THEN Outcome("Err", a1, s, t1, h1)
        ELSE
        LET s1 == take(s)
            t2 == t1 \o served("client_box", s, in.box_send)
            h2 == h1 \o (IF s # <<>> THEN <<"client_box">> ELSE <<>>)
        IN  IF s # <<>> /\ in.box_send = "Err" THEN Outcome("Err", a1, s1, t2, h1)
            ELSE IF s = <<>> /\ in.box_flush = "Err" THEN Outcome("Err", a1, s1, t2, h1)
            ELSE read_block_event(a1, s1, t2, h2, in.event, in.id)

\* What the trace of process_fragments and process_gossip holds after the
\* poll of the stream: the poll_flush of an idle stream, the item start_send
\* accepted.
inbound_trace(in, stream, sink) ==
    <<Polled(stream, in.next)>>
        \o (CASE in.next = "Pending" -> <<Flushed(sink)>>
              [] in.next = "Some" /\ in.send = "Ok" -> <<Sent(sink, <<stream>>)>>
              [] OTHER -> <<>>)

\* Variant of process_inbound_on that polls the stream while the sink is not
\* ready.
process_inbound_unready_on(in, stream, sink) ==
    IF in.ready = "Err" THEN [outcome |-> "Err", polled |-> <<>>, handed |-> <<>>]
    ELSE LET t == (IF in.ready = "Ok" THEN <<Ready(sink)>> ELSE <<NotReady(sink)>>)
                      \o inbound_trace(in, stream, sink)
         IN  CASE in.next = "Pending" ->
                    [outcome |-> IF in.flush = "Err" THEN "Err" ELSE "Pending",
                     polled |-> t, handed |-> <<>>]
               [] in.next = "Some" ->
                    IF in.send = "Err"
                    THEN [outcome |-> "Err", polled |-> t, handed |-> <<>>]
                    ELSE [outcome |-> "Continue", polled |-> t, handed |-> <<sink>>]
               [] in.next = "None" ->
                    [outcome |-> "Disconnect", polled |-> t, handed |-> <<>>]
               [] in.next = "Err" ->
                    [outcome |-> "Err", polled |-> t, handed |-> <<>>]

\* process_fragments and process_gossip: the sink is made ready, then one
\* item is read and given to it.
process_inbound_on(in, stream, sink) ==
    IF in.ready = "Pending"
    THEN [outcome |-> "Pending", polled |-> <<NotReady(sink)>>, handed |-> <<>>]
    ELSE IF in.ready = "Err" THEN [outcome |-> "Err", polled |-> <<>>, handed |-> <<>>]
    ELSE LET t == <<Ready(sink)>> \o inbound_trace(in, stream, sink)
         IN  CASE in.next = "Pending" ->
                    [outcome |-> IF in.flush = "Err" THEN "Err" ELSE "Pending",
                     polled |-> t, handed |-> <<>>]
               [] in.next = "Some" ->
                    IF in.send = "Err"
                    THEN [outcome |-> "Err", polled |-> t, handed |-> <<>>]
                    ELSE [outcome |-> "Continue", polled |-> t, handed |-> <<sink>>]
               [] in.next = "None" ->
                    [outcome |-> "Disconnect", polled |-> t, handed |-> <<>>]
               [] in.next = "Err" ->
                    [outcome |-> "Err", polled |-> t, handed |-> <<>>]

process_fragments_on(in) == process_inbound_on(in, "fragments", "fragment_sink")

\* Variant of process_gossip_on that reads the fragment stream.
process_gossip_on_fragments(in) == process_inbound_on(in, "fragments", "fragment_sink")

process_gossip_on(in) == process_inbound_on(in, "gossip", "gossip_sink")

\* An outbound subscription: an item spawns the request, the end of the
\* stream disconnects.
outbound_on(next) ==
    CASE next = "Pending" -> "Pending"
      [] next = "Some" -> "Continue"
      [] next = "None" -> "Disconnect"

\* poll_shut_down: the four sinks are closed in turn, errors ignored.
poll_shut_down(c) == c \o Sinks

\* Client::poll is entered: shutdown when shutting_down is set, otherwise the
\* first pass of the loop starts.
Client_poll ==
    /\ client_pc = "pending"
    /\ IF shutting_down
       THEN /\ closed' = poll_shut_down(closed)
            /\ client_pc' = "done"
       ELSE /\ client_pc' = "block_events"
            /\ UNCHANGED closed
    /\ progress' = "Pending"
    /\ polled' = <<>>
    /\ handed' = <<>>
    /\ UNCHANGED <<incoming_block_announcement, incoming_solicitation, shutting_down>>
    /\ UNCHANGED nonClientVars

\* The first handler of a pass; the trace of the pass starts with it, the
\* trace of the pass before is kept until then.
process_block_event ==
    /\ client_pc = "block_events"
    /\ \E in \in AskedBlockEventAnswers(incoming_block_announcement,
                                         incoming_solicitation) :
         LET r == process_block_event_on(incoming_block_announcement,
                                         incoming_solicitation, in)
         IN  /\ incoming_block_announcement' = r.announcement
             /\ incoming_solicitation' = r.solicitation
             /\ polled' = r.polled \o <<Returned("process_block_event", r.outcome)>>
             /\ handed' = r.handed
             /\ IF r.outcome = "panic"
                THEN /\ client_pc' = "panicked"
                     /\ UNCHANGED progress
                ELSE /\ client_pc' = "fragments"
                     /\ progress' = Progress_begin(r.outcome)
    /\ UNCHANGED <<shutting_down, closed>>
    /\ UNCHANGED nonClientVars

process_fragments ==
    /\ client_pc = "fragments"
    /\ IF progress = "Disconnect"
       THEN UNCHANGED <<progress, polled, handed>>
       ELSE \E in \in InboundAnswers :
              LET r == process_fragments_on(in)
              IN  /\ progress' = and_proceed_with(progress, r.outcome)
                  /\ polled' = polled \o r.polled
                                    \o <<Returned("process_fragments", r.outcome)>>
                  /\ handed' = handed \o r.handed
    /\ client_pc' = "gossip"
    /\ UNCHANGED <<incoming_block_announcement, incoming_solicitation,
                   shutting_down, closed>>
    /\ UNCHANGED nonClientVars

process_gossip ==
    /\ client_pc = "gossip"
    /\ IF progress = "Disconnect"
       THEN UNCHANGED <<progress, polled, handed>>
       ELSE \E in \in InboundAnswers :
              LET r == process_gossip_on(in)
              IN  /\ progress' = and_proceed_with(progress, r.outcome)
                  /\ polled' = polled \o r.polled
                                    \o <<Returned("process_gossip", r.outcome)>>
                  /\ handed' = handed \o r.handed
    /\ client_pc' = "block_solicitations"
    /\ UNCHANGED <<incoming_block_announcement, incoming_solicitation,
                   shutting_down, closed>>
    /\ UNCHANGED nonClientVars

\* Variant of solicit_blocks that polls the stream after a Disconnect too.
solicit_blocks_unguarded ==
    /\ client_pc = "block_solicitations"
    /\ \E next \in OutboundItems :
         /\ progress' = IF progress = "Disconnect"
                        THEN progress
                        ELSE and_proceed_with(progress, outbound_on(next))
         /\ polled' = polled \o <<Polled("block_solicitations", next),
                                   Returned("solicit_blocks", outbound_on(next))>>
    /\ client_pc' = "chain_pulls"
    /\ UNCHANGED <<incoming_block_announcement, incoming_solicitation,
                   shutting_down, closed, handed>>
    /\ UNCHANGED nonClientVars

solicit_blocks ==
    /\ client_pc = "block_solicitations"
    /\ IF progress = "Disconnect"
       THEN UNCHANGED <<progress, polled>>
       ELSE \E next \in OutboundItems :
              /\ progress' = and_proceed_with(progress, outbound_on(next))
              /\ polled' = polled \o <<Polled("block_solicitations", next),
                                        Returned("solicit_blocks", outbound_on(next))>>
    /\ client_pc' = "chain_pulls"
    /\ UNCHANGED <<incoming_block_announcement, incoming_solicitation,
                   shutting_down, closed, handed>>
    /\ UNCHANGED nonClientVars

pull_headers ==
    /\ client_pc = "chain_pulls"
    /\ IF progress = "Disconnect"
       THEN UNCHANGED <<progress, polled>>
       ELSE \E next \in OutboundItems :
              /\ progress' = and_proceed_with(progress, outbound_on(next))
              /\ polled' = polled \o <<Polled("chain_pulls", next),
                                        Returned("pull_headers", outbound_on(next))>>
    /\ client_pc' = "match_progress"
    /\ UNCHANGED <<incoming_block_announcement, incoming_solicitation,
                   shutting_down, closed, handed>>
    /\ UNCHANGED nonClientVars

\* The end of the pass: Pending is returned, the loop goes round, or the
\* future completes.
match_progress ==
    /\ client_pc = "match_progress"
    /\ CASE progress = "Pending" ->
              /\ client_pc' = "pending"
              /\ UNCHANGED <<progress, polled, handed>>
         [] progress = "Continue" ->
              /\ client_pc' = "block_events"
              /\ progress' = "Pending"
              /\ UNCHANGED <<polled, handed>>
         [] progress = "Disconnect" ->
              /\ client_pc' = "done"
              /\ UNCHANGED <<progress, polled, handed>>
    /\ UNCHANGED <<incoming_block_announcement, incoming_solicitation,
                   shutting_down, closed>>
    /\ UNCHANGED nonClientVars

ClientInit ==
    /\ PoolIdle
    /\ CodecIdle
    /\ NotifierIdle
    /\ ServiceIdle
    /\ PeersIdle
    /\ ConnectIdle
    /\ ClientIdle

ClientNext ==
    \/ Client_poll
    \/ process_block_event
    \/ process_fragments
    \/ process_gossip
    \/ solicit_blocks
    \/ pull_headers
    \/ match_progress

ClientSpec == ClientInit /\ [][ClientNext]_vars

(***************************************************************************)
(* Server service (network/service.rs): handshake and client_auth over the *)
(* peer map.  An AuthenticatedNodeId is a node id with a signature; the    *)
(* signature is the key that made it and the message it was made over.     *)
(***************************************************************************)
Auths == [id : NodeIds, key : NodeIds, signed : Nonces]

\* AuthenticatedNodeId::verify: the signature is by the key of the id and
\* over the nonce.
verify(auth, nonce) == auth.key = auth.id /\ auth.signed = nonce

\* Variant of client_auth_on that does not compare the signed message with
\* the nonce.
client_auth_on_any_nonce(nonce, ids, addr, auth) ==
    IF nonce = NoNonce
    THEN [result |-> "FailedPrecondition", node_id |-> ids]
    ELSE IF auth.key # auth.id
    THEN [result |-> "VerifyFailed", node_id |-> ids]
    ELSE [result |-> "Ok", node_id |-> [ids EXCEPT ![addr] = auth.id]]

\* client_auth on the nonce the peer map holds for the address.
client_auth_on(nonce, ids, addr, auth) ==
    IF nonce = NoNonce
    THEN [result |-> "FailedPrecondition", node_id |-> ids]
    ELSE IF ~verify(auth, nonce)
    THEN [result |-> "VerifyFailed", node_id |-> ids]
    ELSE [result |-> "Ok", node_id |-> [ids EXCEPT ![addr] = auth.id]]

\* handshake: a fresh nonce is generated and kept for the address.
handshake ==
    /\ \E addr \in Addresses, nonce \in Nonces :
         /\ auth_nonce' = [auth_nonce EXCEPT ![addr] = nonce]
         /\ issued' = [issued EXCEPT ![addr] = @ \cup {nonce}]
         /\ call' = [NoCall EXCEPT !.name = "handshake", !.addr = addr,
                                    !.had_nonce = issued[addr] # {},
                                    !.node_id_before = node_id[addr],
                                    !.result = "Ok"]
    /\ UNCHANGED node_id
    /\ UNCHANGED nonServiceVars

client_auth ==
    /\ \E addr \in Addresses, auth \in Auths :
         LET r == client_auth_on(auth_nonce[addr], node_id, addr, auth)
         IN  /\ node_id' = r.node_id
             /\ call' = [name |-> "client_auth", addr |-> addr, auth |-> auth,
                         had_nonce |-> issued[addr] # {},
                         node_id_before |-> node_id[addr],
                         result |-> r.result]
    /\ UNCHANGED <<auth_nonce, issued>>
    /\ UNCHANGED nonServiceVars

ServiceInit ==
    /\ PoolIdle
    /\ CodecIdle
    /\ NotifierIdle
    /\ ConnectIdle
    /\ ClientIdle
    /\ ServiceIdle
    /\ PeersIdle

ServiceNext ==
    \/ handshake
    \/ client_auth

ServiceSpec == ServiceInit /\ [][ServiceNext]_vars

(***************************************************************************)
(* peers (network/service.rs).                                             *)
(***************************************************************************)
Views == {TopologyView(nodes, self) :
              nodes \in SeqsUpTo(Addresses \cup {NoAddr}, MaxView),
              self \in Addresses \cup {NoAddr}}

\* Node::to_socket_addr, as an Option: <<>> for None.
to_socket_addr(n) == IF n = NoAddr THEN <<>> ELSE <<n>>

\* The loop over view.peers: an address is pushed, then the length is
\* compared with the limit.
RECURSIVE peers_loop(_, _, _)
peers_loop(nodes, peers, l) ==
    IF nodes = <<>> THEN peers
    ELSE LET n == to_socket_addr(Head(nodes))
             pushed == peers \o n
         IN  IF n # <<>> /\ Len(pushed) >= l
             THEN pushed
             ELSE peers_loop(Tail(nodes), pushed, l)

NodeService_peers(view, l) ==
    LET found == peers_loop(view.peers, <<>>, l)
    IN  IF found = <<>> THEN to_socket_addr(view.self_node) ELSE found

peers ==
    /\ peers_result = <<>>
    /\ peers_result' = <<NodeService_peers(topology_view, limit)>>
    /\ UNCHANGED <<topology_view, limit>>
    /\ UNCHANGED nonPeersVars

PeersInit ==
    /\ PoolIdle
    /\ CodecIdle
    /\ NotifierIdle
    /\ ConnectIdle
    /\ ClientIdle
    /\ ServiceIdle
    /\ \E v \in Views, l \in 0..MaxLimit : PeersStart(v, l)

PeersNext == peers

PeersSpec == PeersInit /\ [][PeersNext]_vars

(***************************************************************************)
(* Notifier hub (notifier/mod.rs).  start spawns one new_connection task   *)
(* per NewConnection message; the tasks run on the threads of the runtime, *)
(* so the load of the counter in one task and its store are two steps that *)
(* the steps of the other tasks can come between.                          *)
(***************************************************************************)
MAX_CONNECTIONS_ERROR_CLOSE_CODE == 4000
MAX_CONNECTIONS_ERROR_REASON == "MAX CONNECTIONS reached"

close_with(code, reason) == [kind |-> "close", code |-> code, reason |-> reason]
tip_message == [kind |-> "tip", code |-> 0, reason |-> ""]
block_message == [kind |-> "block", code |-> 0, reason |-> ""]

\* Variant of the test that also admits at the ceiling.
admits_at_ceiling(counter, max) == counter <= max

\* if counter < max_connections
admits(counter, max) == counter < max

\* The version of the value the latest-value channel holds: the channel is
\* created at version 1 and every broadcast adds one version.
TipVersion == 1 + hub.tips - Cardinality(hub.tip_tasks)

\* Variant of the clone whose receiver has seen the value the channel holds.
tip_receiver_clone_seen(version) == version

\* self.tip_receiver.clone(): the clone has seen what the receiver it is made
\* from has seen; Notifier.tip_receiver is never polled, it has seen nothing.
tip_receiver_clone(version) == 0

\* block_sender.subscribe(): the receiver starts after the last block sent.
subscribe(tail) == tail + 1

\* broadcast::channel(16): the ring holds the last 16 blocks sent.
BROADCAST_CAPACITY == 16

\* The receiver's next block has been overwritten in the ring.
lagging(next, tail) == tail - (next - 1) > BROADCAST_CAPACITY

\* The oldest block the ring still holds.
oldest(tail) == tail - BROADCAST_CAPACITY + 1

\* The block receivers that exist: those of the forwarding loops.
rx_cnt == Cardinality({i \in DOMAIN conn : conn[i].pc = "forwarding"})

\* start takes a NewConnection message off the queue and spawns the task;
\* the messages are taken in the order of arrival.
NewConnection ==
    /\ \E i \in DOMAIN conn :
         /\ conn[i].pc = "none"
         /\ \A j \in 1..(i - 1) : conn[j].pc # "none"
         /\ conn' = [conn EXCEPT ![i].pc = "spawned",
                                 ![i].tip_ver = tip_receiver_clone(TipVersion)]
    /\ UNCHANGED <<max_connections, connection_counter, hub>>
    /\ UNCHANGED nonNotifierVars

\* let counter = connection_counter.load(Acquire)
new_connection_load ==
    /\ \E i \in DOMAIN conn :
         /\ conn[i].pc = "spawned"
         /\ conn' = [conn EXCEPT ![i].pc = "loaded", ![i].counter = connection_counter]
    /\ UNCHANGED <<max_connections, connection_counter, hub>>
    /\ UNCHANGED nonNotifierVars

\* The admitting branch: store(counter + 1, Release), then the receivers are
\* set up and the forwarding loop is entered.
new_connection_store ==
    /\ \E i \in DOMAIN conn :
         /\ conn[i].pc = "loaded"
         /\ admits(conn[i].counter, max_connections)
         /\ connection_counter' = conn[i].counter + 1
         /\ conn' = [conn EXCEPT ![i].pc = "forwarding",
                                 ![i].next = subscribe(hub.sent)]
    /\ UNCHANGED <<max_connections, hub>>
    /\ UNCHANGED nonNotifierVars

\* The refusing branch: the close frame is sent, and the socket closed when
\* the send went through.
new_connection_close ==
    /\ \E i \in DOMAIN conn :
         /\ conn[i].pc = "loaded"
         /\ ~admits(conn[i].counter, max_connections)
         /\ conn' = [conn EXCEPT
                ![i].pc = "closed",
                ![i].frames = @ \cup {close_with(MAX_CONNECTIONS_ERROR_CLOSE_CODE,
                                                 MAX_CONNECTIONS_ERROR_REASON)}]
    /\ UNCHANGED <<max_connections, connection_counter, hub>>
    /\ UNCHANGED nonNotifierVars

\* The forwarding loop gets a message from one of its two receivers, the tip
\* held by the latest-value channel or a block of the broadcast ring, and
\* sends it to the subscriber; a send error ends the loop.
forward ==
    /\ \E i \in DOMAIN conn, msg \in {tip_message, block_message}, ok \in BOOLEAN :
         /\ conn[i].pc = "forwarding"
         /\ conn' = [conn EXCEPT
                ![i].frames = @ \cup {msg},
                ![i].pc = IF ok THEN "forwarding" ELSE "ended"]
         /\ conn' # conn
    /\ UNCHANGED <<max_connections, connection_counter, hub>>
    /\ UNCHANGED nonNotifierVars

NotifierInit ==
    /\ PoolIdle
    /\ CodecIdle
    /\ ConnectIdle
    /\ ClientIdle
    /\ ServiceIdle
    /\ PeersIdle
    /\ \E max \in 1..MaxConnections : NotifierStart(max)

NotifierNext ==
    \/ NewConnection
    \/ new_connection_load
    \/ new_connection_store
    \/ new_connection_close
    \/ forward

NotifierSpec == NotifierInit /\ [][NotifierNext]_vars

(***************************************************************************)
(* The notifications of the hub.  start spawns one task per NewTip and per *)
(* NewBlock message; a task broadcasts its tip on the latest-value channel *)
(* or sends its block into the ring.  The forwarding loop of a subscriber  *)
(* selects between its tip receiver and its block receiver.  The receivers *)
(* of a subscriber are its own, so one subscriber is followed (Watchers).  *)
(***************************************************************************)
Watchers == {1}

\* Message::NewTip(block_id): the broadcast task is spawned.  The tips are
\* numbered in the order start takes them off the queue.
NewTip ==
    /\ hub.tips < MaxTips
    /\ Cardinality(hub.tip_tasks) < MaxTasks
    /\ hub' = [hub EXCEPT !.tips = @ + 1, !.tip_tasks = @ \cup {hub.tips + 1}]
    /\ UNCHANGED <<max_connections, connection_counter, conn>>
    /\ UNCHANGED nonNotifierVars

\* tip_sender.broadcast(new_tip(block_id)) in one of the spawned tasks.
broadcast_tip ==
    /\ \E t \in hub.tip_tasks :
         hub' = [hub EXCEPT !.tip = t, !.tip_tasks = @ \ {t}]
    /\ UNCHANGED <<max_connections, connection_counter, conn>>
    /\ UNCHANGED nonNotifierVars

\* Message::NewBlock(block_id): the send task is spawned.
NewBlock ==
    /\ hub.sent + hub.block_tasks < MaxPublished
    /\ hub.block_tasks < MaxTasks
    /\ hub' = [hub EXCEPT !.block_tasks = @ + 1]
    /\ UNCHANGED <<max_connections, connection_counter, conn>>
    /\ UNCHANGED nonNotifierVars

\* block_sender.send(new_block(block_id)) in one of the spawned tasks: with
\* no receiver the send fails and the block is not put into the ring.
send_block ==
    /\ hub.block_tasks > 0
    /\ hub' = [hub EXCEPT !.block_tasks = @ - 1,
                          !.sent = IF rx_cnt = 0 THEN @ ELSE @ + 1]
    /\ UNCHANGED <<max_connections, connection_counter, conn>>
    /\ UNCHANGED nonNotifierVars

\* msg = tip_receiver.next(): ready when the channel holds a version the
\* receiver has not seen; the value the channel holds is sent.
forward_tip ==
    /\ \E i \in DOMAIN conn, ok \in BOOLEAN :
         /\ conn[i].pc = "forwarding"
         /\ conn[i].tip_ver # TipVersion
         /\ conn' = [conn EXCEPT
                ![i].tip_ver = TipVersion,
                ![i].tip = IF ok THEN hub.tip ELSE @,
                ![i].frames = IF ok THEN @ \cup {tip_message} ELSE @,
                ![i].pc = IF ok THEN "forwarding" ELSE "ended"]
    /\ UNCHANGED <<max_connections, connection_counter, hub>>
    /\ UNCHANGED nonNotifierVars

\* msg = block_receiver.next() gives Some(Ok(msg)): the next block is sent.
forward_block ==
    /\ \E i \in DOMAIN conn, ok \in BOOLEAN :
         /\ conn[i].pc = "forwarding"
         /\ conn[i].next <= hub.sent
         /\ ~lagging(conn[i].next, hub.sent)
         /\ conn' = [conn EXCEPT
                ![i].next = @ + 1,
                ![i].block = IF ok THEN conn[i].next ELSE @,
                ![i].frames = IF ok THEN @ \cup {block_message} ELSE @,
                ![i].pc = IF ok THEN "forwarding" ELSE "ended"]
    /\ UNCHANGED <<max_connections, connection_counter, hub>>
    /\ UNCHANGED nonNotifierVars

\* Variant in which a Lagged report ends the forwarding loop.
forward_lagged_breaks ==
    /\ \E i \in DOMAIN conn :
         /\ conn[i].pc = "forwarding"
         /\ lagging(conn[i].next, hub.sent)
         /\ conn' = [conn EXCEPT
                ![i].next = oldest(hub.sent),
                ![i].lagged_at = hub.sent,
                ![i].pc = "ended"]
    /\ UNCHANGED <<max_connections, connection_counter, hub>>
    /\ UNCHANGED nonNotifierVars

\* msg = block_receiver.next() gives Some(Err(Lagged)): the receiver moves to
\* the oldest block of the ring, if let Some(Ok(msg)) does not match and the
\* loop goes on.
forward_lagged ==
    /\ \E i \in DOMAIN conn :
         /\ conn[i].pc = "forwarding"
         /\ lagging(conn[i].next, hub.sent)
         /\ conn' = [conn EXCEPT
                ![i].next = oldest(hub.sent),
                ![i].lagged_at = hub.sent]
    /\ UNCHANGED <<max_connections, connection_counter, hub>>
    /\ UNCHANGED nonNotifierVars

HubInit ==
    /\ PoolIdle
    /\ CodecIdle
    /\ ConnectIdle
    /\ ClientIdle
    /\ ServiceIdle
    /\ PeersIdle
    /\ max_connections = MaxConnections
    /\ connection_counter = 0
    /\ conn = [i \in Watchers |-> NoConnection]
    /\ hub = NoHub

HubNext ==
    \/ NewConnection
    \/ new_connection_load
    \/ new_connection_store
    \/ NewTip
    \/ broadcast_tip
    \/ NewBlock
    \/ send_block
    \/ forward_tip
    \/ forward_block
    \/ forward_lagged

HubSpec == HubInit /\ [][HubNext]_vars

(***************************************************************************)
(* Vote codec (jormungandr-lib/src/interfaces/vote.rs).  The decoders are  *)
(* pure functions; a run draws one input and applies one of them.  A       *)
(* result is a value (Ok), a decode error returned to the caller (Err) or  *)
(* the abort of the process (panic).                                       *)
(***************************************************************************)
DecodeOk(v) == [kind |-> "Ok", value |-> v]
DecodeErr(msg) == [kind |-> "Err", msg |-> msg]
Panic(msg) == [kind |-> "panic", msg |-> msg]

\* value as u8
as_u8(value) == value % 256

\* Options::new_length (chain-impl-mockchain): every u8 length is taken.
new_length(num_choices) == DecodeOk(num_choices)

\* Variant of visit_u64 without the range test.
visit_u64_unchecked(value) == new_length(as_u8(value))

\* OptionsVisitor::visit_u64
visit_u64(value) ==
    IF value > 255
    THEN DecodeErr("expecting a value less than 256")
    ELSE new_length(as_u8(value))

\* deserialize_u64 hands an unsigned integer to visit_u64.
deserialize_choices_of(value) == visit_u64(value)

\* A proposal of the input is given by its options count; the other fields
\* play no part in the decoders modelled.
OptionCounts == {3, 256}
ProposalLists == SeqsUpTo(OptionCounts, MaxProposals + 1)

\* ProposalsList::deserialize: the proposals are decoded in order and the
\* first error is the result; Ok holds the decoded proposals.
RECURSIVE ProposalsList_deserialize(_, _)
ProposalsList_deserialize(list, done) ==
    IF list = <<>>
    THEN DecodeOk(done)
    ELSE LET p == deserialize_choices_of(Head(list))
         IN  IF p.kind = "Err"
             THEN p
             ELSE ProposalsList_deserialize(Tail(list), Append(done, p.value))

\* Proposals::push (chain-impl-mockchain): Full when the maximum is reached.
Proposals_push(proposals, proposal) ==
    IF Len(proposals) >= MaxProposals
    THEN [full |-> TRUE, proposals |-> proposals]
    ELSE [full |-> FALSE, proposals |-> Append(proposals, proposal)]

\* The loop of deserialize_proposals over the decoded list.
RECURSIVE push_all(_, _)
push_all(list, proposals) ==
    IF list = <<>>
    THEN DecodeOk(proposals)
    ELSE LET r == Proposals_push(proposals, Head(list))
         IN  IF r.full
             THEN Panic("too many proposals")
             ELSE push_all(Tail(list), r.proposals)

\* deserialize_proposals
deserialize_proposals_of(list) ==
    LET proposals_list == ProposalsList_deserialize(list, <<>>)
    IN  IF proposals_list.kind = "Err"
        THEN proposals_list
        ELSE push_all(proposals_list.value, <<>>)

Input(fn, arg) == [NoCodec EXCEPT !.fn = fn, !.arg = arg]

deserialize_choices ==
    /\ codec.fn = "deserialize_choices"
    /\ codec.out = NoOut
    /\ codec' = [codec EXCEPT !.out = deserialize_choices_of(codec.arg)]
    /\ UNCHANGED nonCodecVars

deserialize_proposals ==
    /\ codec.fn = "deserialize_proposals"
    /\ codec.out = NoOut
    /\ codec' = [codec EXCEPT !.out = deserialize_proposals_of(codec.arg)]
    /\ UNCHANGED nonCodecVars

(***************************************************************************)
(* SerdeMemberPublicKey in its human-readable form.  A member public key   *)
(* is a group element, here a sign and a coordinate with a two-byte        *)
(* encoding; a bech32 text is its human-readable part, the separator, its  *)
(* data characters as 5-bit values (32 for a character outside the         *)
(* charset) and its checksum.  The checksum is taken as exact: it is the   *)
(* same for two texts only when their parts and data are.                  *)
(***************************************************************************)
MEMBER_PUBLIC_KEY_BECH32_HRP == "p256k1_memberpk"
OTHER_HRP == "ed25519_pk"

XCoords == (0..MaxCoord) \cup ((255 - MaxCoord)..255)
MemberPublicKeys == [sign : {0, 1}, x : XCoords]

\* MemberPublicKey::to_bytes
to_bytes(k) == <<2 + k.sign, k.x>>

\* MemberPublicKey::from_bytes: None (<<>>) unless the bytes are a key.
from_bytes(buf) ==
    IF Len(buf) = 2 /\ buf[1] \in {2, 3}
    THEN <<[sign |-> buf[1] - 2, x |-> buf[2]]>>
    ELSE <<>>

Bit(n, i) == (n \div (2 ^ i)) % 2

\* The bits of a sequence of w-bit values, most significant first.
BitsOf(data, w) ==
    [j \in 1..(w * Len(data)) |->
        Bit(data[((j - 1) \div w) + 1], w - 1 - ((j - 1) % w))]

\* The value of the w bits from position start on, zero bits past the end.
RECURSIVE GroupValue(_, _, _)
GroupValue(bits, start, w) ==
    IF w = 0
    THEN 0
    ELSE (IF start <= Len(bits) THEN bits[start] ELSE 0) * (2 ^ (w - 1))
         + GroupValue(bits, start + 1, w - 1)

\* bech32::convert_bits
convert_bits(data, from, to, pad) ==
    LET bits == BitsOf(data, from)
        full == Len(bits) \div to
        rest == Len(bits) % to
        groups(n) == [g \in 1..n |-> GroupValue(bits, (g - 1) * to + 1, to)]
    IN  IF pad
        THEN DecodeOk(groups(IF rest = 0 THEN full ELSE full + 1))
        ELSE IF rest >= from \/ GroupValue(bits, full * to + 1, to) # 0
             THEN DecodeErr("InvalidPadding")
             ELSE DecodeOk(groups(full))

to_base32(bytes) == convert_bits(bytes, 8, 5, TRUE).value
from_base32(data) == convert_bits(data, 5, 8, FALSE)

bech32_checksum(hrp, data) == <<hrp, data>>

\* bech32::encode
bech32_encode(hrp, data) ==
    IF hrp = ""
    THEN DecodeErr("InvalidLength")
    ELSE DecodeOk([hrp |-> hrp, sep |-> TRUE, data |-> data,
                   checksum |-> bech32_checksum(hrp, data)])

\* bech32::decode
bech32_decode(v) ==
    IF ~v.sep
    THEN DecodeErr("MissingSeparator")
    ELSE IF \E i \in 1..Len(v.data) : v.data[i] \notin 0..31
    THEN DecodeErr("InvalidChar")
    ELSE IF v.checksum # bech32_checksum(v.hrp, v.data)
    THEN DecodeErr("InvalidChecksum")
    ELSE DecodeOk([hrp |-> v.hrp, data |-> v.data])

\* Variant of visit_string without the test of the human-readable part.
visit_string_any_hrp(v) ==
    LET decoded == bech32_decode(v)
    IN  IF decoded.kind = "Err"
        THEN DecodeErr("Invalid public key bech32 representation")
        ELSE LET content == from_base32(decoded.value.data)
             IN  IF content.kind = "Err"
                 THEN DecodeErr("Invalid public key bech32 representation")
                 ELSE LET pk == from_bytes(content.value)
                      IN  IF pk = <<>>
                          THEN DecodeErr("Invalid public key with bech32 representation")
                          ELSE DecodeOk(pk[1])

\* Bech32Visitor::visit_string
visit_string(v) ==
    LET decoded == bech32_decode(v)
    IN  IF decoded.kind = "Err"
        THEN DecodeErr("Invalid public key bech32 representation")
        ELSE LET content == from_base32(decoded.value.data)
             IN  IF content.kind = "Err"
                 THEN DecodeErr("Invalid public key bech32 representation")
                 ELSE IF decoded.value.hrp # MEMBER_PUBLIC_KEY_BECH32_HRP
                 THEN DecodeErr("Invalid public key bech32 public hrp")
                 ELSE LET pk == from_bytes(content.value)
                      IN  IF pk = <<>>
                          THEN DecodeErr("Invalid public key with bech32 representation")
                          ELSE DecodeOk(pk[1])

\* SerdeMemberPublicKey::serialize with a human-readable serializer
serialize_of(k) ==
    bech32_encode(MEMBER_PUBLIC_KEY_BECH32_HRP, to_base32(to_bytes(k)))

\* Texts that are not the encoding of a key: bech32 of another human-readable
\* part, bech32 of bytes that are no key, and texts that are not bech32.
OtherTexts(k) ==
    LET bytes == to_bytes(k)
        good == serialize_of(k).value
        enc(hrp, data) == bech32_encode(hrp, data).value
    IN  { enc(OTHER_HRP, to_base32(bytes)),
          enc(MEMBER_PUBLIC_KEY_BECH32_HRP, to_base32(Append(bytes, 0))),
          enc(MEMBER_PUBLIC_KEY_BECH32_HRP, to_base32(<<bytes[1]>>)),
          enc(MEMBER_PUBLIC_KEY_BECH32_HRP, to_base32(<<4, bytes[2]>>)),
          enc(MEMBER_PUBLIC_KEY_BECH32_HRP, Append(to_base32(bytes), 0)),
          enc(MEMBER_PUBLIC_KEY_BECH32_HRP,
              [to_base32(bytes) EXCEPT ![4] = @ + 1 - 2 * (@ % 2)]),
          [good EXCEPT !.data[1] = (@ + 1) % 32],
          [good EXCEPT !.data[1] = 32],
          [good EXCEPT !.hrp = OTHER_HRP],
          [good EXCEPT !.sep = FALSE] }

serialize ==
    /\ codec.fn = "serialize"
    /\ LET r == serialize_of(codec.arg)
       IN  codec' = IF r.kind = "Ok"
                    THEN [codec EXCEPT !.fn = "deserialize", !.text = r.value]
                    ELSE [codec EXCEPT !.out = r]
    /\ UNCHANGED nonCodecVars

\* A text that did not come from serialize is given to the decoder.
other_text ==
    /\ codec.fn = "serialize"
    /\ \E t \in OtherTexts(codec.arg) :
         codec' = [codec EXCEPT !.fn = "deserialize", !.text = t]
    /\ UNCHANGED nonCodecVars

deserialize ==
    /\ codec.fn = "deserialize"
    /\ codec.out = NoOut
    /\ codec' = [codec EXCEPT !.out = visit_string(codec.text)]
    /\ UNCHANGED nonCodecVars

CodecInit ==
    /\ PoolIdle
    /\ ConnectIdle
    /\ ClientIdle
    /\ ServiceIdle
    /\ PeersIdle
    /\ NotifierIdle
    /\ \/ \E v \in 0..MaxOptions : codec = Input("deserialize_choices", v)
       \/ \E l \in ProposalLists : codec = Input("deserialize_proposals", l)
       \/ \E k \in MemberPublicKeys : codec = Input("serialize", k)

CodecNext ==
    \/ deserialize_choices
    \/ deserialize_proposals
    \/ serialize
    \/ other_text
    \/ deserialize

CodecSpec == CodecInit /\ [][CodecNext]_vars

(***************************************************************************)
(* Properties.                                                             *)
(***************************************************************************)
IsInsert == op.name = "insert_and_propagate_all" /\ pc # "idle"
IsRemove == op.name = "remove_added_to_block" /\ pc = "returned"
IsSelect == op.name = "select" /\ pc = "returned"
Distinct(fs) == Cardinality(Range(fs))

RECURSIVE IsSubseq(_, _)
IsSubseq(a, b) ==
    IF a = <<>> THEN TRUE
    ELSE IF b = <<>> THEN FALSE
    ELSE IF Head(a) = Head(b) THEN IsSubseq(Tail(a), Tail(b))
    ELSE IsSubseq(a, Tail(b))

IsSuffix(a, b) ==
    /\ Len(a) <= Len(b)
    /\ a = SubSeq(b, Len(b) - Len(a) + 1, Len(b))

\* C1: the mempool never holds more than max_entries fragments, and a call
\* that inserts a batch F into an empty pool leaves at most min(|F|,
\* max_entries) fragments in it, all of them members of F.
C1_PoolBounded ==
    /\ Len(entries) <= max_entries
    /\ (IsInsert /\ pre.entries = <<>>) =>
         /\ Len(entries) <= Min(Distinct(op.fragments), max_entries)
         /\ Range(entries) \subseteq Range(op.fragments)

C1_Witness ==
    /\ IsInsert /\ pc = "returned"
    /\ pre.entries = <<>>
    /\ Distinct(op.fragments) > max_entries
    /\ Len(entries) = max_entries
    /\ evicted # <<>>

\* C2: a batch whose every id already has a log returns Ok(0) at once, sends
\* no propagation message and leaves the mempool and the logs as they were.
C2_KnownBatchIsNoOp ==
    (IsInsert /\ \A f \in Range(op.fragments) : pre.logs[f] # NoLog) =>
        /\ pc = "returned"
        /\ result = Ok(0)
        /\ sent = <<>>
        /\ entries = pre.entries
        /\ logs = pre.logs

C2_Witness ==
    /\ IsInsert /\ pc = "returned"
    /\ op.fragments # <<>>
    /\ \A f \in Range(op.fragments) : pre.logs[f] # NoLog
    /\ \E f \in Range(op.fragments) : f \notin Range(pre.entries)

\* A completed call on a batch of admissible fragments none of which was in
\* the logs or the pool.
FreshBatchDone ==
    /\ IsInsert /\ pc = "returned" /\ result.tag = "Ok"
    /\ op.fragments # <<>>
    /\ \A f \in Range(op.fragments) :
         /\ is_fragment_valid(f)
         /\ pre.logs[f] = NoLog
         /\ f \notin Range(pre.entries)

OnePerDistinctId ==
    /\ result = Ok(Distinct(op.fragments))
    /\ Len(sent) = Distinct(op.fragments)
    /\ Range(sent) = Range(op.fragments)
    /\ {f \in FragmentIds : pre.logs[f] = NoLog /\ logs[f] # NoLog} = Range(op.fragments)
    /\ \A f \in Range(op.fragments) : logs[f] = "Pending"

C4_EvictsOldest ==
    (IsInsert /\ Len(pre.entries) = max_entries) =>
        LET k == Len(fragment_logs)
            all == pre.entries \o fragment_logs
        IN  /\ evicted = SubSeq(all, 1, k)
            /\ entries = SubSeq(all, k + 1, Len(all))

C4_Witness ==
    /\ IsInsert /\ pc = "returned"
    /\ max_entries = 2
    /\ pre.entries = <<1, 2>>
    /\ op.fragments = <<3>>
    /\ evicted = <<1>>
    /\ entries = <<2, 3>>

\* C5: a call that returns CannotPropagate has still inserted the Pending
\* logs of the fragments it admitted.
C5_LogsInsertedOnCannotPropagate ==
    (IsInsert /\ pc = "returned" /\ result = CannotPropagate) =>
        \A f \in Range(fragment_logs) : logs[f] = "Pending"

\* C6: the messages of a call are sent in the order in which the admitted
\* fragments stand in the batch, and no log is inserted while a send of the
\* call is still to come.
C6_PropagationOrder ==
    IsInsert =>
        /\ sent \o new_fragments = fragment_logs
        /\ IsSubseq(fragment_logs, op.fragments)
        /\ logs # pre.logs => (pc = "returned" /\ new_fragments = <<>>)

C6_Witness ==
    /\ IsInsert /\ pc = "returned" /\ result.tag = "Ok"
    /\ Len(sent) >= 2
    /\ Len(op.fragments) > Len(sent)
    /\ logs # pre.logs

\* C7: a call whose inserts push entries out of the full pool changes no
\* existing log; the log of an evicted fragment stays Pending.
C7_EvictionKeepsLogs ==
    (IsInsert /\ evicted # <<>>) =>
        \A f \in FragmentIds : pre.logs[f] # NoLog => logs[f] = pre.logs[f]

C7_Witness ==
    /\ IsInsert /\ pc = "returned" /\ result.tag = "Ok"
    /\ max_entries = 2
    /\ pre.entries = <<1, 2>>
    /\ op.fragments = <<3>>
    /\ evicted = <<1>>
    /\ pre.logs[1] = "Pending"
    /\ logs[1] = "Pending"

\* C8: after remove_added_to_block(ids, status) none of the ids is in the
\* mempool, and applying it again with the same arguments changes neither
\* the mempool nor the logs.
C8_RemoveIdempotent ==
    IsRemove =>
        LET again == remove_added_to_block_on(entries, logs, op.fragments, op.status)
        IN  /\ again.entries = entries
            /\ again.logs = logs
            /\ Range(op.fragments) \cap Range(entries) = {}

C8_Witness ==
    /\ IsRemove
    /\ Len(op.fragments) = 2
    /\ op.fragments[1] \in Range(pre.entries)
    /\ op.fragments[2] \notin Range(pre.entries)
    /\ entries # <<>>
    /\ logs # pre.logs

\* The fragments the claim excludes: the four refused variants, and any
\* fragment whose transaction fails verify_possibly_balanced.
Refused(f) ==
    \/ variant[f] \in {"Initial", "OldUtxoDeclaration", "UpdateProposal", "UpdateVote"}
    \/ ~verify_possibly_balanced[f]

\* C9: no refused fragment is ever in the mempool, is propagated, or is given
\* a log by insert_and_propagate_all; a batch of refused fragments only
\* returns Ok(0) and changes nothing.
C9_RefusedNeverAdmitted ==
    /\ \A f \in FragmentIds : Refused(f) =>
         /\ f \notin Range(entries)
         /\ f \notin Range(outbox)
         /\ f \notin Range(sent)
         /\ f \notin Range(fragment_logs)
         /\ IsInsert => logs[f] = pre.logs[f]
    /\ (IsInsert /\ \A f \in Range(op.fragments) : Refused(f)) =>
         /\ pc = "returned"
         /\ result = Ok(0)
         /\ sent = <<>>
         /\ entries = pre.entries
         /\ logs = pre.logs

C9_Witness ==
    /\ IsInsert /\ pc = "returned"
    /\ Len(op.fragments) = 3
    /\ \E i \in 1..3 : variant[op.fragments[i]] = "UpdateVote"
    /\ \E i \in 1..3 : ~verify_possibly_balanced[op.fragments[i]]
    /\ result = Ok(1)

SpentBefore(v, i) ==
    op.ledger \cup {input[v[j]] : j \in {k \in 1..(i - 1) : v[k] \in Range(result.val)}}

C12_Block0Mismatch ==
    LET peer == HeaderHash_read(block0)
    IN  /\ (peer.ok /\ peer.hash # expected) =>
             /\ task_result = Block0Mismatch(expected, peer.hash)
             /\ conn_result = Block0Mismatch(expected, peer.hash)
             /\ Range(requests) \cap Range(Subscriptions) = {}
             /\ ~client_created
        /\ (peer.ok /\ peer.hash = expected) =>
             /\ task_result.tag # "Block0Mismatch"
             /\ conn_result.tag # "Block0Mismatch"
        /\ ~peer.ok =>
             /\ task_result.tag # "Block0Mismatch"
             /\ conn_result.tag # "Block0Mismatch"

C12_Witness ==
    /\ conn_poll = "resolved"
    /\ requests = <<"connect", "handshake">>
    /\ Len(block0) >= HashLen
    /\ conn_result.tag = "Block0Mismatch"
    /\ conn_result.expected = expected
    /\ conn_result.peer_responded # expected

\* The handle was dropped before the future resolved, and the future has
\* resolved.
CanceledAndResolved == canceled_in # "no" /\ conn_poll = "resolved"

\* The task stands where it stood: no request sent, no stage passed.
TaskNotDriven ==
    /\ conn_stage' = conn_stage
    /\ requests' = requests
    /\ task_result' = task_result
    /\ client_created' = client_created

\* The drop has been seen by the future, or will be at the start of the
\* next poll: it came between two polls, or the poll it came in is over.
DropObservable ==
    \/ canceled_in = "pending"
    \/ canceled_in = "polling" /\ conn_poll # "polling"

\* C13 as stated: a handle dropped before the future resolved makes the
\* future resolve to Canceled, whatever the interleaving, and from the
\* moment the drop is observed the task is not driven.
C13_DroppedResolvesCanceled ==
    /\ [](CanceledAndResolved => conn_result.tag = "Canceled")
    /\ [][DropObservable => TaskNotDriven]_vars

\* C13 amended: such a future never resolves to Ok; it resolves to
\* Canceled unless the drop came inside the poll in which the task failed,
\* and then to the error of the task; a poll that starts after the drop
\* does not drive the task.
C13_DroppedNeverOk ==
    /\ [](CanceledAndResolved =>
            /\ conn_result.tag # "Ok"
            /\ comms = "unsent"
            /\ conn_result.tag # "Canceled" =>
                  /\ canceled_in = "polling"
                  /\ conn_result = task_result)
    /\ [][DropObservable => TaskNotDriven]_vars

C13_Witness ==
    /\ CanceledAndResolved
    /\ canceled_in = "polling"
    /\ conn_result.tag = "Handshake"

\* C14: when the peer's handshake response asks for client authentication,
\* a client_auth request is sent after the handshake and before the three
\* subscription requests.
C14_ClientAuthBeforeSubscriptions ==
    (peer_auth /\ Range(Subscriptions) \cap Range(requests) # {}) =>
        \E i \in 1..Len(requests) :
            /\ requests[i] = "client_auth"
            /\ \E h \in 1..(i - 1) : requests[h] = "handshake"
            /\ \A j \in 1..Len(requests) :
                 requests[j] \in Range(Subscriptions) => i < j

\* C15: a driver that completed after a Disconnect outcome has closed the
\* block sink, the fragment sink, the gossip sink and the client request
\* box, in that order.
C15_DisconnectRunsShutdown ==
    (client_pc = "done" /\ progress = "Disconnect") => closed = Sinks

\* C16: client_auth from an address that no handshake has issued a nonce
\* to fails with FailedPrecondition; the node id kept for an address was
\* presented with a signature that verifies against a nonce issued to that
\* address; a client_auth that fails leaves the node id as it was.
C16_ClientAuthNeedsIssuedNonce ==
    /\ (call.name = "client_auth" /\ ~call.had_nonce) =>
          call.result = "FailedPrecondition"
    /\ (call.name = "client_auth" /\ call.result = "Ok") =>
          /\ \E n \in issued[call.addr] : verify(call.auth, n)
          /\ node_id[call.addr] = call.auth.id
    /\ (call.name = "client_auth" /\ call.result # "Ok") =>
          node_id[call.addr] = call.node_id_before
    /\ \A a \in Addresses : node_id[a] # NoId => issued[a] # {}

C16_Witness ==
    /\ call.name = "client_auth"
    /\ call.result = "VerifyFailed"
    /\ call.auth.key = call.auth.id
    /\ call.auth.signed \in issued[call.addr]
    /\ call.auth.signed # auth_nonce[call.addr]
    /\ node_id[call.addr] # NoId
    /\ \E a \in Addresses : issued[a] = {}

\* C17: peers(limit) returns at most limit addresses when the view has a
\* peer with a socket address.
C17_PeersAtMostLimit ==
    (peers_result # <<>> /\ \E i \in 1..Len(topology_view.peers) :
                                topology_view.peers[i] # NoAddr) =>
        Len(peers_result[1]) <= limit

\* The subscribers that entered the forwarding loop.
Admitted == {i \in Subscribers : conn[i].pc \in {"forwarding", "ended"}}

\* C18: whatever the interleaving of the new_connection tasks, no more than
\* max_connections subscribers enter the forwarding loop.
C18_AdmittedWithinCeiling == Cardinality(Admitted) <= max_connections

\* A subscriber whose task read a counter at or above the ceiling and has
\* acted on it.
RefusedConnection(i) ==
    /\ conn[i].pc \notin {"none", "spawned", "loaded"}
    /\ conn[i].counter >= max_connections

\* C19: a connection whose task read a counter value >= max_connections is
\* sent the close frame with code 4000 and reason "MAX CONNECTIONS reached",
\* is sent no tip or block notification, and its task does not write the
\* connection counter.
C19_RefusedGetsCloseFrame ==
    /\ [](\A i \in Subscribers : RefusedConnection(i) =>
            /\ conn[i].pc = "closed"
            /\ conn[i].frames = {close_with(4000, "MAX CONNECTIONS reached")})
    /\ [][\A i \in Subscribers :
            (conn[i].pc = "loaded" /\ conn[i].counter >= max_connections
                /\ conn'[i] # conn[i]) =>
            connection_counter' = connection_counter]_vars

C19_Witness ==
    /\ max_connections = 2
    /\ conn[1].pc = "forwarding"
    /\ conn[2].pc = "forwarding"
    /\ tip_message \in conn[1].frames
    /\ conn[3].pc = "closed"
    /\ conn[3].counter = 2
    /\ connection_counter = 2

\* C20: the connection counter never decreases.
C20_CounterMonotonic == [][connection_counter' >= connection_counter]_vars

\* C21: a subscriber in its forwarding loop is never left without the tip the
\* latest-value channel holds: has its receiver seen the version the channel
\* holds, then the last tip message sent to it carries that tip; otherwise
\* the receiver is ready with it, whether or not a NewTip event follows.
C21_AdmittedGetsCurrentTip ==
    \A i \in DOMAIN conn :
        (conn[i].pc = "forwarding" /\ conn[i].tip_ver = TipVersion)
            => conn[i].tip = hub.tip

\* The initial tip was forwarded and no NewTip event has been taken.
C21_Witness ==
    /\ hub.tips = 0
    /\ \E i \in DOMAIN conn : conn[i].pc = "forwarding" /\ conn[i].tip = 0

\* The last tip broadcast was forwarded to a subscriber admitted after it.
C21_WitnessPublished ==
    /\ hub.tips > 0
    /\ hub.tip_tasks = {}
    /\ \E i \in DOMAIN conn :
         /\ conn[i].pc = "forwarding"
         /\ conn[i].tip = hub.tip
         /\ tip_message \in conn[i].frames

\* The step in which subscriber i's block receiver reports Lagged.
ReportsLagged(i) ==
    /\ conn[i].pc = "forwarding"
    /\ lagging(conn[i].next, hub.sent)
    /\ conn'[i].lagged_at # conn[i].lagged_at

\* C22: the step in which a block receiver reports Lagged sends nothing and
\* leaves the loop forwarding, with the receiver at the oldest block of the
\* ring, so that every block sent later is still ahead of it and the tip
\* receiver is as it was; and a forwarding loop only ends in a step that
\* tried to send a tip or a block.
C22_LaggedLoopGoesOn ==
    /\ [][\A i \in DOMAIN conn : ReportsLagged(i) =>
            /\ conn'[i].pc = "forwarding"
            /\ conn'[i].frames = conn[i].frames
            /\ conn'[i].tip_ver = conn[i].tip_ver
            /\ conn'[i].next = oldest(hub.sent)
            /\ conn'[i].next <= hub.sent
            /\ ~lagging(conn'[i].next, hub.sent)]_vars
    /\ [][\A i \in DOMAIN conn :
            (conn[i].pc = "forwarding" /\ conn'[i].pc = "ended")
                => (conn'[i].tip_ver # conn[i].tip_ver
                    \/ conn'[i].next = conn[i].next + 1)]_vars

\* A subscriber that lagged was afterwards sent a block put into the ring
\* after the report, and the tip of a NewTip event.
C22_Witness ==
    \E i \in DOMAIN conn :
        /\ conn[i].pc = "forwarding"
        /\ conn[i].lagged_at > 0
        /\ conn[i].block > conn[i].lagged_at
        /\ conn[i].tip > 0

\* C23: decoding an options count accepts the unsigned integer v exactly when
\* v <= 255, with v itself as the count; a larger v gives a decode error, not
\* the count v mod 256.
C23_OptionsAcceptedIffByte ==
    (codec.fn = "deserialize_choices" /\ codec.out.kind # "none") =>
        /\ codec.arg <= 255 => codec.out = DecodeOk(codec.arg)
        /\ codec.arg >= 256 => codec.out.kind = "Err"

\* 256, whose low eight bits are 0, was given and refused.
C23_Witness ==
    /\ codec.fn = "deserialize_choices"
    /\ codec.arg = 256
    /\ codec.out.kind = "Err"

\* 255 was given and accepted.
C23_WitnessAccepted ==
    /\ codec.fn = "deserialize_choices"
    /\ codec.arg = 255
    /\ codec.out = DecodeOk(255)

\* C24: decoding a proposals array longer than the maximum gives a decode
\* error returned to the caller.
C24_TooManyProposalsIsError ==
    (codec.fn = "deserialize_proposals" /\ codec.out.kind # "none"
        /\ Len(codec.arg) > MaxProposals)
        => codec.out.kind = "Err"

\* C25: decoding a text gives a key exactly when the text is the encoding of
\* that key; so the encoding of k decodes to k, and a text with another
\* human-readable part, a text that is not bech32 and a text whose payload is
\* no key are all refused.
C25_Bech32RoundTrip ==
    (codec.fn = "deserialize" /\ codec.out.kind # "none") =>
        /\ codec.text = serialize_of(codec.arg).value
              => codec.out = DecodeOk(codec.arg)
        /\ codec.text.hrp # MEMBER_PUBLIC_KEY_BECH32_HRP => codec.out.kind = "Err"
        /\ codec.text \in OtherTexts(codec.arg) => codec.out.kind = "Err"
        /\ codec.out.kind = "Ok"
              => codec.text = serialize_of(codec.out.value).value

\* A key was encoded and decoded.
C25_Witness ==
    /\ codec.fn = "deserialize"
    /\ codec.out.kind = "Ok"
    /\ codec.text = serialize_of(codec.arg).value

\* A well-formed text of another human-readable part was refused.
C25_WitnessOtherHrp ==
    /\ codec.fn = "deserialize"
    /\ codec.out.kind = "Err"
    /\ bech32_decode(codec.text).kind = "Ok"
    /\ codec.text.hrp = OTHER_HRP

Handlers == {"process_block_event", "process_fragments", "process_gossip",
             "solicit_blocks", "pull_headers"}

\* The positions of the trace of the pass at which a handler returned.
Returns == {i \in 1..Len(polled) : polled[i][1] \in Handlers}
OutcomesOfPass == {polled[i][2] : i \in Returns}
Disconnecting == {"Disconnect", "Err"}

\* C26: at the end of a pass, Pending is returned only when all five handlers
\* ran and each returned Pending; and when no handler disconnected and one
\* returned Continue, another pass starts.
C26_PendingOnlyIfAllPending ==
    [][client_pc = "match_progress" =>
        /\ client_pc' = "pending"
              => (Cardinality(Returns) = 5 /\ OutcomesOfPass = {"Pending"})
        /\ ("Continue" \in OutcomesOfPass /\ OutcomesOfPass \cap Disconnecting = {})
              => (client_pc' = "block_events" /\ progress' = "Pending")]_vars

\* Pending was returned by a pass in which the five streams were polled.
C26_Witness ==
    /\ client_pc = "pending"
    /\ Cardinality(Returns) = 5
    /\ \E i \in 1..Len(polled) : polled[i] = Polled("chain_pulls", "Pending")

\* C27: a handler that disconnected is the last thing of the trace of its
\* pass: nothing is polled after it, the pass neither returns Pending nor
\* goes round, and the future completes.
C27_DisconnectEndsPass ==
    /\ [](\A i \in Returns :
            polled[i][2] \in Disconnecting =>
                /\ i = Len(polled)
                /\ progress = "Disconnect"
                /\ client_pc \in {"fragments", "gossip", "block_solicitations",
                                  "chain_pulls", "match_progress", "done"})
    /\ [][(client_pc = "match_progress" /\ progress = "Disconnect")
            => client_pc' = "done"]_vars

\* The future completed in a pass whose first handler disconnected.
C27_Witness ==
    /\ client_pc = "done"
    /\ \E i \in Returns :
         polled[i] = Returned("process_block_event", "Disconnect") /\ i = Len(polled)

\* C28: no assertion before the write of a slot fails and a slot holds at
\* most one item; both slots are empty when an event is read, so after the
\* step that read it at most the slot the event wrote is full.
C28_SlotsEmptyWhenRead ==
    /\ [](/\ client_pc # "panicked"
          /\ Len(incoming_block_announcement) <= 1
          /\ Len(incoming_solicitation) <= 1)
    /\ [][(client_pc = "block_events"
             /\ \E i \in 1..Len(polled') : polled'[i][1] = "block_events")
            => Len(incoming_block_announcement') + Len(incoming_solicitation') <= 1]_vars

\* In one pass the buffered solicitation was handed to the client box and
\* the event read next filled the slot again.
C28_Witness ==
    /\ "client_box" \in Range(handed)
    /\ incoming_solicitation # <<>>
    /\ \E i \in 1..Len(polled) : \E id \in EventIds : polled[i] = Event("Missing", id)

\* The sink reported ready earlier in the trace of the pass.
ReadyBefore(sink, i) == \E j \in 1..(i - 1) : polled[j] = Ready(sink)

\* C29: in the trace of a pass, a poll of the block-event stream comes after
\* the block sink and the client box reported ready, a poll of the fragment
\* stream after the fragment sink did, a poll of the gossip stream after the
\* gossip sink did.
C29_PolledOnlyWhenSinkReady ==
    \A i \in 1..Len(polled) :
        /\ polled[i][1] = "block_events"
              => (ReadyBefore("block_sink", i) /\ ReadyBefore("client_box", i))
        /\ polled[i][1] = "fragments" => ReadyBefore("fragment_sink", i)
        /\ polled[i][1] = "gossip" => ReadyBefore("gossip_sink", i)

\* The three inbound streams were polled in one pass.
C29_Witness ==
    /\ \E i \in 1..Len(polled) : polled[i][1] = "block_events"
    /\ \E i \in 1..Len(polled) : polled[i][1] = "fragments"
    /\ \E i \in 1..Len(polled) : polled[i][1] = "gossip"

\* An event whose block ids or checkpoints do not decode was read in the pass.
UndecodableRead ==
    \E i \in 1..Len(polled) :
        polled[i] \in {Event("SolicitUndecodable", 1), Event("MissingUndecodable", 1)}

\* C30: an event of the block-event stream that does not decode does not end
\* the connection: the pass does not disconnect and the future does not
\* complete.
C30_DecodeFailureKeepsConnection ==
    UndecodableRead => (progress # "Disconnect" /\ client_pc # "done")

\* The items start_send gave to the sink in the trace, in order.
SentItems(t, sink) ==
    LET f == SelectSeq(t, LAMBDA e : e[1] = sink /\ e[2] = "start_send")
    IN  [i \in 1..Len(f) |-> f[i][3]]

\* The positions of the trace at which the block-event stream was polled.
EventReads(t) == {i \in 1..Len(t) : t[i][1] = "block_events"}

\* The positions at which the sink was given an item.
Sends(t, sink) == {i \in 1..Len(t) : t[i][1] = sink /\ t[i][2] = "start_send"}

\* What the slot holds after the event: the item of the event that fills
\* the slot, nothing after any other event.
Buffered(e, kinds) ==
    IF e[2] \in DOMAIN kinds THEN << <<kinds[e[2]], e[3]>> >> ELSE <<>>

AnnounceKinds == [Announce |-> "header"]
SolicitKinds == [Solicit |-> "GetBlocks", Missing |-> "GetHeadersRange"]

\* The slot goes through the call as a one-place queue between the stream
\* and its sink: the sink is given nothing but the buffered item, once; an
\* item that is not given stays buffered unless the call fails; the stream
\* is polled only after the buffered item was given, and what it carries is
\* what the slot then holds.
ForwardedInOrder(slot, slot_after, sink, kinds) ==
    LET d == polled'
        failed == d[Len(d)][2] \in {"Err", "panic"}
    IN  /\ SentItems(d, sink) \in {<<>>, slot}
        /\ (slot # <<>> /\ SentItems(d, sink) = <<>>) => (slot_after = slot \/ failed)
        /\ \A i \in EventReads(d) :
             /\ SentItems(d, sink) = slot
             /\ \A j \in Sends(d, sink) : j < i
             /\ ~failed => slot_after = Buffered(d[i], kinds)
        /\ (EventReads(d) = {} /\ SentItems(d, sink) # <<>>) => slot_after = <<>>

\* C31: a call of process_block_event hands the buffered header to the block
\* sink, and the buffered client request to the client box, before it reads
\* the next event, hands nothing else, hands it once, and buffers what the
\* event it reads carries: headers reach the block sink, and requests the
\* client box, one by one in the order of the events.
C31_ForwardedInEventOrder ==
    [][client_pc = "block_events" =>
        /\ ForwardedInOrder(incoming_block_announcement, incoming_block_announcement',
                            "block_sink", AnnounceKinds)
        /\ ForwardedInOrder(incoming_solicitation, incoming_solicitation',
                            "client_box", SolicitKinds)]_vars

\* In one call the buffered header was handed to the block sink and the
\* announcement read next put another header in the slot.
C31_Witness ==
    /\ \E i \in 1..Len(polled) : \E j \in 1..Len(polled) :
         /\ i < j
         /\ polled[i] = Sent("block_sink", <<"header", 1>>)
         /\ polled[j] = Event("Announce", 2)
    /\ incoming_block_announcement = << <<"header", 2>> >>

\* C32: when the driver future has completed with Disconnect, both slots are
\* empty: nothing that was read from the peer and buffered is dropped.
C32_SlotsEmptyAtDisconnect ==
    (client_pc = "done" /\ progress = "Disconnect") =>
        /\ incoming_block_announcement = <<>>
        /\ incoming_solicitation = <<>>

\* A later entry of the trace is a poll_ready or poll_flush call on the sink.
FlushAttemptAfter(sink, i) ==
    \E j \in (i + 1)..Len(polled) :
        polled[j] \in {Ready(sink), NotReady(sink), Flushed(sink)}

\* C33: when the driver returns Pending, every item the pass gave to the
\* block sink or to the client box with start_send has been followed, in the
\* pass, by a poll_ready or poll_flush call on that sink.
C33_FlushAttemptBeforePending ==
    client_pc = "pending" =>
        \A sink \in {"block_sink", "client_box"} :
            \A i \in Sends(polled, sink) : FlushAttemptAfter(sink, i)

Sources == {"block_events", "fragments", "gossip", "block_solicitations", "chain_pulls"}

\* The positions of the trace at which the stream was polled, and whether
\* the poll took an item from the stream.
PollsOf(t, source) == {i \in 1..Len(t) : t[i][1] = source}
ConsumedItems == Carrying \cup {"SolicitUndecodable", "MissingUndecodable", "Some"}
Consumed(t, source) == \E i \in PollsOf(t, source) : t[i][2] \in ConsumedItems

\* In a pass each stream is polled at most once.
OncePerPass == \A source \in Sources : Cardinality(PollsOf(polled, source)) <= 1

\* The block-event stream gave an item in the pass before and gives one in
\* the pass this step begins.
ConsumesAgain ==
    /\ client_pc = "block_events"
    /\ Consumed(polled, "block_events")
    /\ Consumed(polled', "block_events")

\* C34 as stated: in a pass each stream is polled at most once, and between
\* two items taken from the block-event stream every other stream has been
\* polled.
C34_EveryStreamPolledBetween ==
    /\ []OncePerPass
    /\ [][ConsumesAgain => \A source \in Sources : PollsOf(polled, source) # {}]_vars

\* C34 amended: in a pass each stream is polled at most once, and between
\* two items taken from the block-event stream every other handler has run
\* once; a handler whose sink is not ready returns without polling its
\* stream.
C34_EveryHandlerRunBetween ==
    /\ []OncePerPass
    /\ [][ConsumesAgain =>
            /\ {polled[i][1] : i \in Returns} = Handlers
            /\ Cardinality(Returns) = 5
            /\ \A source \in Sources \ {"block_events"} :
                 PollsOf(polled, source) = {} =>
                    \E i \in 1..Len(polled) : polled[i][2] = "not_ready"]_vars

\* The block-event stream gave an item in two passes in a row while the
\* fragment sink was not ready in the first, and the other streams were
\* polled in it.
C34_Witness ==
    /\ client_pc = "match_progress"
    /\ progress = "Continue"
    /\ Consumed(polled, "block_events")
    /\ NotReady("fragment_sink") \in Range(polled)
    /\ PollsOf(polled, "gossip") # {}
    /\ PollsOf(polled, "chain_pulls") # {}

\* C35: once a call has returned, whatever it returned, every fragment id
\* held in the mempool has an entry in the fragment logs.
C35_PooledFragmentsHaveLogs ==
    pc # "propagating" => \A f \in Range(entries) : logs[f] # NoLog

\* C36: a fragment whose id is in the mempool leaves the mempool as it was,
\* order included: a batch of such fragments changes nothing, and in every
\* call the pool stays a window over the old entries followed by the admitted
\* ones, what it drops being the oldest of them in order of admission.
C36_ResubmissionKeepsOrder ==
    IsInsert =>
        LET all == pre.entries \o fragment_logs
        IN  /\ Range(op.fragments) \subseteq Range(pre.entries) => entries = pre.entries
            /\ IsSuffix(entries, all)
            /\ evicted = SubSeq(all, 1, Len(evicted))
            /\ Len(evicted) + Len(entries) = Len(all)

\* The oldest entry of a full pool was submitted again, reached the pool's
\* insert because it had no log, and was the first entry the next admission
\* of the same call pushed out.
C36_Witness ==
    /\ IsInsert
    /\ Len(pre.entries) = max_entries /\ max_entries >= 2
    /\ Len(op.fragments) >= 2
    /\ op.fragments[1] = pre.entries[1]
    /\ pre.logs[op.fragments[1]] = NoLog
    /\ is_fragment_valid(op.fragments[1])
    /\ fragment_logs # <<>>
    /\ evicted # <<>> /\ evicted[1] = pre.entries[1]

\* A fragment of the batch that is not in the mempool while its log exists:
\* one the cache dropped, or one a block or select took out.
LoggedOutside(f) ==
    /\ f \in Range(op.fragments)
    /\ f \notin Range(pre.entries)
    /\ pre.logs[f] # NoLog

\* C37: a fragment that is out of the mempool while its log exists is not
\* admitted again: the call does not insert it, does not propagate it and
\* does not count it.
C37_LoggedNeverReadmitted ==
    IsInsert =>
        \A f \in FragmentIds :
            LoggedOutside(f) =>
                /\ f \notin Range(entries)
                /\ f \notin Range(fragment_logs)
                /\ f \notin Range(sent) \cup Range(new_fragments)
                /\ result.tag = "Ok" => result = Ok(Len(fragment_logs))

\* A call that returned had in its batch a fragment the cache had dropped for
\* capacity, with its log still there and room for it in the pool.
C37_Witness ==
    /\ IsInsert /\ pc = "returned"
    /\ \E f \in pre.dropped : LoggedOutside(f) /\ is_fragment_valid(f)
    /\ Len(pre.entries) < max_entries
    /\ fragment_logs # <<>>

\* C38: the future resolves to Ok only with the PeerComms sent to a live
\* receiver; try_complete yields Some only by taking them out of the
\* channel, which happens once, after the task succeeded and the future
\* resolved to Ok, and every later try_complete yields something else.
C38_CommsDeliveredOnce ==
    /\ [](/\ conn_result.tag = "Ok" => comms \in {"sent", "taken"}
          /\ comms # "unsent" => (task_result.tag = "Ok" /\ conn_result.tag = "Ok")
          /\ handle_result = "Some" => comms = "taken")
    /\ [][/\ handle_result' = "Some" =>
                (handle_result = "Some" \/ (comms = "sent" /\ comms' = "taken"))
          /\ comms = "taken" =>
                (comms' = "taken" /\ handle_result' \in {"Some", "Canceled"}
                   /\ (handle_result = "Canceled" => handle_result' = "Canceled"))]_vars

\* The handle took the PeerComms and a later try_complete found the channel
\* closed and empty.
C38_Witness ==
    /\ comms = "taken"
    /\ handle_result = "Canceled"
    /\ conn_result.tag = "Ok"
    /\ handle_alive

\* The subscribers whose forwarding loop is running.
Active == {i \in Subscribers : conn[i].pc = "forwarding"}

\* C39: once the forwarding loop of an admitted subscriber has ended, a
\* connection task that reads the counter while fewer than max_connections
\* subscribers are active reads a value that admits it.
C39_EndedSubscriberFreesSlot ==
    [][\A i \in Subscribers :
          (/\ conn[i].pc = "spawned" /\ conn'[i].pc = "loaded"
           /\ \E j \in Subscribers : conn[j].pc = "ended"
           /\ Cardinality(Active) < max_connections)
          => admits(conn'[i].counter, max_connections)]_vars

\* C40: once every spawned broadcast task has run, the latest-value channel
\* holds the tip the hub took last off its mailbox, and a subscriber that has
\* seen the channel's version was sent that tip last.
C40_TipsInMailboxOrder ==
    hub.tip_tasks = {} =>
        /\ hub.tip = hub.tips
        /\ \A i \in DOMAIN conn :
             (conn[i].pc = "forwarding" /\ conn[i].tip_ver = TipVersion)
                => conn[i].tip = hub.tips

TypeOK ==
    /\ max_entries \in 1..MaxCapacity
    /\ Range(entries) \subseteq FragmentIds
    /\ logs \in [FragmentIds -> Statuses \cup {NoLog}]
    /\ pc \in {"idle", "propagating", "returned"}
====
